---- MODULE Spec2Model ----
(***************************************************************************)
(* A model of the Web3Wallet keystore engine: the Wallet constructors and  *)
(* HD address derivation (models/wallet.rs), the keystore record and its   *)
(* validation (models/keystore.rs), the encryption service and keystore    *)
(* file I/O (services/crypto.rs) and the validators of utils.rs.           *)
(*                                                                         *)
(* Strings the code inspects character by character (hex fields,           *)
(* addresses, private keys, derivation paths, passwords) are sequences of  *)
(* one-character strings; byte buffers are sequences of 0..255.  Strings   *)
(* the code only compares as a whole (network, cipher, kdf, alias, words   *)
(* of a phrase) are TLA+ strings.                                          *)
(*                                                                         *)
(* The library primitives (Argon2id, PBKDF2, HMAC-SHA256, AES-256-GCM,     *)
(* BIP32/secp256k1/Keccak) are replaced by small arithmetic stand-ins      *)
(* that are deterministic and distinguish every two inputs the model       *)
(* explores: what a collision-free primitive gives the real program.       *)
(***************************************************************************)
EXTENDS Integers, Sequences, FiniteSets, TLC

\* ---------------------------------------------------------------- bounds
\* derive_address is called with the indices 0..MaxIndex and 10 * MaxIndex + 1
MaxIndex == 2
\* how many distinct values the random salt can take in encrypt_wallet
NumSalts == 1
\* how many distinct values the random nonce can take in encrypt_wallet
NumNonces == 1

\* ------------------------------------------------------ program constants
SALT_LENGTH == 32
NONCE_LENGTH == 12
KEY_LENGTH == 32
DEFAULT_ARGON2_MEMORY == 47104
DEFAULT_ARGON2_ITERATIONS == 1
DEFAULT_ARGON2_PARALLELISM == 1
LOW_MEMORY_ARGON2_MEMORY == 19456
LOW_MEMORY_ARGON2_ITERATIONS == 2
PBKDF2_ITERATIONS == 100000
\* length of the authentication tag AES-256-GCM appends to the ciphertext
AEAD_TAG_LENGTH == 16
\* output length of HMAC-SHA256
MAC_LENGTH == 32
\* Argon2 refuses a memory cost below 8 blocks per lane and a salt below 8 bytes
ARGON2_MIN_BLOCKS_PER_LANE == 8
ARGON2_MIN_SALT_LENGTH == 8
PRIVATE_KEY_HEX_LENGTH == 64
ADDRESS_HEX_LENGTH == 40
\* u32::MAX, in decimal digits
U32_MAX == <<"4","2","9","4","9","6","7","2","9","5">>

DEFAULT_DERIVATION_PATH == <<"m","/","4","4","'","/","6","0","'","/","0","'","/","0">>
SUPPORTED_NETWORKS == {"mainnet", "sepolia", "goerli", "holesky"}
SUPPORTED_WORD_COUNTS == {12, 24}

\* ------------------------------------------------------- character helpers
Rep(c, n) == [i \in 1..n |-> c]

RECURSIVE SumSeq(_)
SumSeq(s) == IF s = <<>> THEN 0 ELSE s[1] + SumSeq(Tail(s))

RECURSIVE Flatten(_)
Flatten(ss) == IF ss = <<>> THEN <<>> ELSE ss[1] \o Flatten(Tail(ss))

HexLower == <<"0","1","2","3","4","5","6","7","8","9","a","b","c","d","e","f">>
HexUpper == <<"0","1","2","3","4","5","6","7","8","9","A","B","C","D","E","F">>
DecDigits == <<"0","1","2","3","4","5","6","7","8","9">>

\* char::is_ascii_hexdigit
is_ascii_hexdigit(c) == \E i \in 1..16 : HexLower[i] = c \/ HexUpper[i] = c

HexVal(c) == (CHOOSE i \in 1..16 : HexLower[i] = c \/ HexUpper[i] = c) - 1

is_ascii_digit(c) == \E i \in 1..10 : DecDigits[i] = c

DecVal(c) == (CHOOSE i \in 1..10 : DecDigits[i] = c) - 1

\* hex::encode: two lower-case digits per byte
hex_encode(bytes) ==
    [i \in 1..(2 * Len(bytes)) |->
        LET b == bytes[(i + 1) \div 2]
        IN  IF i % 2 = 1 THEN HexLower[(b \div 16) + 1] ELSE HexLower[(b % 16) + 1]]

\* hex::decode: an odd length or a non-hex character is an error; both cases
\* of a letter decode to the same value
hex_decode(s) ==
    IF Len(s) % 2 # 0 \/ (\E i \in 1..Len(s) : ~is_ascii_hexdigit(s[i]))
    THEN [ok |-> FALSE, val |-> <<>>]
    ELSE [ok |-> TRUE,
          val |-> [i \in 1..(Len(s) \div 2) |->
                      16 * HexVal(s[2 * i - 1]) + HexVal(s[2 * i])]]

\* str::strip_prefix("0x").unwrap_or(s)
strip_0x(s) ==
    IF Len(s) >= 2 /\ s[1] = "0" /\ s[2] = "x" THEN SubSeq(s, 3, Len(s)) ELSE s

\* str::split('/')
RECURSIVE SplitFrom(_, _, _, _)
SplitFrom(s, i, cur, acc) ==
    IF i > Len(s) THEN Append(acc, cur)
    ELSE IF s[i] = "/" THEN SplitFrom(s, i + 1, <<>>, Append(acc, cur))
    ELSE SplitFrom(s, i + 1, Append(cur, s[i]), acc)

split_slash(s) == SplitFrom(s, 1, <<>>, <<>>)

RECURSIVE DecimalValue(_)
DecimalValue(s) ==
    IF s = <<>> THEN 0 ELSE 10 * DecimalValue(SubSeq(s, 1, Len(s) - 1)) + DecVal(s[Len(s)])

RECURSIVE StripZeros(_)
StripZeros(d) == IF Len(d) > 1 /\ d[1] = "0" THEN StripZeros(Tail(d)) ELSE d

\* digit strings of equal length compare as their numbers do
DigitsAtMost(a, b) ==
    a = b \/ \E i \in 1..Len(a) :
                DecVal(a[i]) < DecVal(b[i]) /\ \A j \in 1..(i - 1) : a[j] = b[j]

\* str::parse::<u32>(): an optional '+', then at least one digit, no overflow.
\* The value is given for the numbers below 10^9 (the model's integers are
\* 32 bits wide and its paths hold no larger number).
parse_u32(s) ==
    LET d == IF s # <<>> /\ s[1] = "+" THEN Tail(s) ELSE s
    IN  IF d = <<>> \/ (\E i \in 1..Len(d) : ~is_ascii_digit(d[i]))
        THEN [ok |-> FALSE, val |-> 0]
        ELSE LET z == StripZeros(d)
             IN  IF Len(z) > Len(U32_MAX) \/ (Len(z) = Len(U32_MAX) /\ ~DigitsAtMost(z, U32_MAX))
                 THEN [ok |-> FALSE, val |-> 0]
                 ELSE [ok |-> TRUE, val |-> IF Len(z) < Len(U32_MAX) THEN DecimalValue(z) ELSE 0]

\* format!("{}", index) of a u32
RECURSIVE to_decimal(_)
to_decimal(n) ==
    IF n < 10 THEN <<DecDigits[n + 1]>>
    ELSE Append(to_decimal(n \div 10), DecDigits[(n % 10) + 1])

\* two hex digits of a number, used by the stand-ins below
D2(n) == <<HexLower[((n \div 16) % 16) + 1], HexLower[(n % 16) + 1]>>

\* ------------------------------------------------------------------ errors
\* WalletError: the category is the enum the error converts from (.into()),
\* kind is the variant, text the field that tells two uses of a variant apart
Error(cat, kind, text) == [cat |-> cat, kind |-> kind, text |-> text]

NoError == Error("none", "none", "")

Ok(v) == [ok |-> TRUE, val |-> v, err |-> NoError]

Err(e) == [ok |-> FALSE, val |-> <<>>, err |-> e]

\* ------------------------------------------------------------- utils.rs
validate_ethereum_address(address) ==
    LET addr == strip_0x(address)
    IN  IF Len(addr) # ADDRESS_HEX_LENGTH
        THEN Err(Error("Validation", "InvalidAddressFormat", "40 hex characters"))
        ELSE IF \E i \in 1..Len(addr) : ~is_ascii_hexdigit(addr[i])
        THEN Err(Error("Validation", "InvalidAddressFormat", "hexadecimal characters only"))
        ELSE Ok(<<>>)

\* one component of a derivation path: non-empty, a u32 with an optional '
PathComponentOk(component) ==
    /\ component # <<>>
    /\ LET num == IF component[Len(component)] = "'"
                  THEN SubSeq(component, 1, Len(component) - 1)
                  ELSE component
       IN  parse_u32(num).ok

validate_derivation_path(path) ==
    IF ~(Len(path) >= 2 /\ path[1] = "m" /\ path[2] = "/")
    THEN Err(Error("Validation", "InvalidAddressFormat", "path starting with m/"))
    ELSE LET components == split_slash(SubSeq(path, 3, Len(path)))
         IN  IF \E i \in 1..Len(components) : ~PathComponentOk(components[i])
             THEN Err(Error("Validation", "InvalidAddressFormat", "path components"))
             ELSE Ok(<<>>)

\* is_supported_network as it would be if it took every name
is_supported_network_any(network) == TRUE

is_supported_network(network) == network \in SUPPORTED_NETWORKS

is_supported_word_count(count) == count \in SUPPORTED_WORD_COUNTS

entropy_bits_for_word_count(count) == IF count = 12 THEN 128 ELSE 256

\* config::get_argon2_config(true), the configuration for low memory
get_argon2_config_low_memory ==
    [memory |-> LOW_MEMORY_ARGON2_MEMORY,
     iterations |-> LOW_MEMORY_ARGON2_ITERATIONS,
     parallelism |-> DEFAULT_ARGON2_PARALLELISM]

\* config::get_argon2_config(false), as encrypt_wallet calls it
get_argon2_config ==
    [memory |-> DEFAULT_ARGON2_MEMORY,
     iterations |-> DEFAULT_ARGON2_ITERATIONS,
     parallelism |-> DEFAULT_ARGON2_PARALLELISM]

\* ------------------------------------------------- BIP39 (bip39 crate)
\* The words of the BIP39 English list the model uses
WordList == {"abandon", "about", "address", "agent", "admit", "art",
             "zoo", "wrong", "when", "vote"}

\* word counts Mnemonic::from_str accepts: 12 to 24 in steps of 3
BIP39_WORD_COUNTS == {12, 15, 18, 21, 24}

\* The last word of a phrase carries the checksum of the entropy.  For the
\* entropies whose bytes are all 0x00 (words "abandon") or all 0xff (words
\* "zoo") the checksum word is the one SHA-256 gives.
ChecksumWord(fill, n) ==
    IF fill = "abandon"
    THEN CASE n = 12 -> "about" [] n = 15 -> "address" [] n = 18 -> "agent"
           [] n = 21 -> "admit" [] n = 24 -> "art" [] OTHER -> "none"
    ELSE IF fill = "zoo"
    THEN CASE n = 12 -> "wrong" [] n = 18 -> "when" [] n = 24 -> "vote"
           [] OTHER -> "none"
    ELSE "none"

\* bip39::Mnemonic::from_str(phrase).is_ok(): word count, word list, checksum
Bip39Valid(phrase) ==
    /\ Len(phrase) \in BIP39_WORD_COUNTS
    /\ \A i \in 1..Len(phrase) : phrase[i] \in WordList
    /\ \A i \in 1..(Len(phrase) - 1) : phrase[i] = phrase[1]
    /\ phrase[Len(phrase)] = ChecksumWord(phrase[1], Len(phrase))

\* bip39::Mnemonic::from_entropy(entropy).to_string() for the entropies the
\* model draws: every byte 0x00 or every byte 0xff
from_entropy(entropy) ==
    LET n == (Len(entropy) * 3) \div 4
        fill == IF entropy[1] = 0 THEN "abandon" ELSE "zoo"
    IN  Append(Rep(fill, n - 1), ChecksumWord(fill, n))

\* -------------------------------------------- HD derivation (ethers)
WordNum(w) ==
    CASE w = "abandon" -> 0 [] w = "about" -> 3 [] w = "address" -> 27
      [] w = "admit" -> 29 [] w = "agent" -> 39 [] w = "art" -> 102
      [] w = "zoo" -> 255 [] w = "wrong" -> 245 [] w = "when" -> 209
      [] w = "vote" -> 175 [] OTHER -> 1

\* DerivationPath::from_str of ethers: the components after "m", each a u32
\* with an optional ' for hardened derivation
ParsePathComponent(component) ==
    LET hardened == component # <<>> /\ component[Len(component)] = "'"
        num == IF hardened THEN SubSeq(component, 1, Len(component) - 1) ELSE component
    IN  [ok |-> parse_u32(num).ok, num |-> parse_u32(num).val, hardened |-> hardened]

ParsePath(path) ==
    LET parts == split_slash(path)
        comps == IF parts # <<>> /\ parts[1] = <<"m">> THEN Tail(parts) ELSE parts
    IN  [ok |-> \A i \in 1..Len(comps) : ParsePathComponent(comps[i]).ok,
         comps |-> [i \in 1..Len(comps) |-> ParsePathComponent(comps[i])]]

\* Stand-in for seed -> BIP32 child key -> secp256k1 public key -> Keccak:
\* the 40 hex digits spell out the phrase and the path, so that two different
\* (phrase, path) pairs of the model give two different addresses.  For the
\* phrase and the two paths of the test vectors (m/44'/60'/0'/0/0 and
\* m/44'/60'/0'/0/1) it is the address the tests record, in the lower case
\* format!("{:?}", address) writes.
EthAddress(phrase, comps) ==
    LET vector == phrase = <<"abandon", "abandon", "abandon", "abandon", "abandon", "abandon",
                             "abandon", "abandon", "abandon", "abandon", "abandon", "about">>
        \* m/44'/60'/0'/0, parsed
        account == <<[ok |-> TRUE, num |-> 44, hardened |-> TRUE],
                     [ok |-> TRUE, num |-> 60, hardened |-> TRUE],
                     [ok |-> TRUE, num |-> 0, hardened |-> TRUE],
                     [ok |-> TRUE, num |-> 0, hardened |-> FALSE]>>
        index0 == Append(account, [ok |-> TRUE, num |-> 0, hardened |-> FALSE])
        index1 == Append(account, [ok |-> TRUE, num |-> 1, hardened |-> FALSE])
        digits == D2(Len(phrase)) \o D2(WordNum(phrase[1]))
                    \o D2(WordNum(phrase[Len(phrase)]))
                    \o Flatten([i \in 1..Len(comps) |->
                          D2(comps[i].num) \o (IF comps[i].hardened THEN <<"1">> ELSE <<"0">>)])
        padded == digits \o Rep("0", ADDRESS_HEX_LENGTH)
    IN  IF vector /\ comps = index0
        THEN \* 0x9858effd232b4033e47d90003d41ec34ecaeda94
             <<"0", "x", "9", "8", "5", "8", "e", "f", "f", "d", "2", "3", "2", "b",
               "4", "0", "3", "3", "e", "4", "7", "d", "9", "0", "0", "0", "3", "d",
               "4", "1", "e", "c", "3", "4", "e", "c", "a", "e", "d", "a", "9", "4">>
        ELSE IF vector /\ comps = index1
        THEN \* 0x6fac4d18c912343bf86fa7049364dd4e424ab9c0
             <<"0", "x", "6", "f", "a", "c", "4", "d", "1", "8", "c", "9", "1", "2",
               "3", "4", "3", "b", "f", "8", "6", "f", "a", "7", "0", "4", "9", "3",
               "6", "4", "d", "d", "4", "e", "4", "2", "4", "a", "b", "9", "c", "0">>
        ELSE <<"0", "x">> \o SubSeq(padded, 1, ADDRESS_HEX_LENGTH)

\* MnemonicBuilder::<English>::default().phrase(p).derivation_path(path).build()
\* followed by format!("{:?}", wallet.address())
MnemonicBuilderAddress(phrase, path) ==
    IF ~ParsePath(path).ok
    THEN Err(Error("Cryptographic", "InvalidDerivationPath", "valid BIP44 derivation path"))
    ELSE IF ~Bip39Valid(phrase)
    THEN Err(Error("Cryptographic", "AddressGenerationFailed", "mnemonic"))
    ELSE Ok(EthAddress(phrase, ParsePath(path).comps))

\* the path MnemonicBuilder uses when none is given: m/44'/60'/0'/0/0
BUILDER_DEFAULT_PATH == DEFAULT_DERIVATION_PATH \o <<"/", "0">>

\* ------------------------------------------------------- models/wallet.rs
\* The clock: chrono::Utc::now() of the one instant the model runs in
Now == "2024-01-01T00:00:00Z"

MkWallet(mnemonic, key, address, path, network, created_at, alias) ==
    [mnemonic |-> mnemonic, master_private_key |-> key, address |-> address,
     derivation_path |-> path, network |-> network, created_at |-> created_at,
     alias |-> alias]

has_mnemonic(w) == w.mnemonic # <<>>

from_mnemonic(mnemonic, network, alias) ==
    IF ~Bip39Valid(mnemonic)
    THEN Err(Error("Cryptographic", "InvalidMnemonic", "from_str"))
    ELSE LET built == MnemonicBuilderAddress(mnemonic, BUILDER_DEFAULT_PATH)
         IN  IF ~built.ok
             THEN Err(Error("Cryptographic", "AddressGenerationFailed", "build"))
             ELSE Ok(MkWallet(mnemonic, "Some(seed)", built.val,
                              DEFAULT_DERIVATION_PATH, network, Now, alias))

\* the order of the secp256k1 group: a private key is a scalar in 1..n-1
SECP256K1_ORDER ==
    <<255,255,255,255,255,255,255,255,255,255,255,255,255,255,255,254,
      186,174,220,230,175,72,160,59,191,210,94,140,208,54,65,65>>

BytesLess(a, b) ==
    \E i \in 1..Len(a) : a[i] < b[i] /\ \A j \in 1..(i - 1) : a[j] = b[j]

\* str::parse::<LocalWallet>(): an optional 0x/0X, 32 bytes of hex, a scalar
\* that is neither zero nor above the group order
ParseLocalWallet(key_str) ==
    LET src == IF Len(key_str) >= 2 /\ key_str[1] = "0" /\ key_str[2] \in {"x", "X"}
               THEN SubSeq(key_str, 3, Len(key_str)) ELSE key_str
        bytes == hex_decode(src)
    IN  IF ~bytes.ok \/ Len(bytes.val) # KEY_LENGTH THEN [ok |-> FALSE, val |-> <<>>]
        ELSE IF (\A i \in 1..KEY_LENGTH : bytes.val[i] = 0)
                \/ ~BytesLess(bytes.val, SECP256K1_ORDER)
        THEN [ok |-> FALSE, val |-> <<>>]
        ELSE [ok |-> TRUE, val |-> bytes.val]

\* Stand-in for secp256k1 public key -> Keccak: the last 20 bytes of the key
KeyAddress(key) == <<"0", "x">> \o hex_encode(SubSeq(key, 13, 32))

\* from_private_key as it would be without strip_prefix("0x")
from_private_key_unstripped(private_key, network, alias) ==
    IF Len(private_key) # PRIVATE_KEY_HEX_LENGTH \/ ~ParseLocalWallet(private_key).ok
    THEN Err(Error("Cryptographic", "InvalidPrivateKey", "64 hex characters"))
    ELSE Ok(MkWallet(<<>>, "Some(empty)", KeyAddress(ParseLocalWallet(private_key).val),
                     DEFAULT_DERIVATION_PATH, network, Now, alias))

\* Wallet::from_private_key
from_private_key(private_key, network, alias) ==
    LET key_str == strip_0x(private_key)
    IN  IF Len(key_str) # PRIVATE_KEY_HEX_LENGTH
        THEN Err(Error("Cryptographic", "InvalidPrivateKey", "64 hex characters"))
        ELSE IF ~ParseLocalWallet(key_str).ok
        THEN Err(Error("Cryptographic", "InvalidPrivateKey", "valid secp256k1 private key"))
        ELSE Ok(MkWallet(<<>>, "Some(empty)", KeyAddress(ParseLocalWallet(key_str).val),
                         DEFAULT_DERIVATION_PATH, network, Now, alias))

\* Wallet::generate with the bytes thread_rng() filled the entropy buffer with
generate(word_count, fill, network, alias) ==
    IF ~is_supported_word_count(word_count)
    THEN Err(Error("Cryptographic", "InvalidMnemonic", "Unsupported word count"))
    ELSE LET entropy == Rep(fill, entropy_bits_for_word_count(word_count) \div 8)
         IN  from_mnemonic(from_entropy(entropy), network, alias)

\* derive_address as it would be if it derived from the cached master key,
\* which serialization skips, instead of from the mnemonic
derive_address_from_cached_key(w, index) ==
    IF w.mnemonic = <<>> \/ w.master_private_key = "None"
    THEN Err(Error("Cryptographic", "KdfFailed",
                   "Cannot derive addresses from private key only wallet"))
    ELSE LET derivation_path == w.derivation_path \o <<"/">> \o to_decimal(index)
             built == MnemonicBuilderAddress(w.mnemonic, derivation_path)
         IN  IF ~built.ok THEN Err(built.err)
             ELSE Ok([address |-> built.val, index |-> index,
                      derivation_path |-> derivation_path])

\* The entropy buffer of Wallet::generate when the call returns: the Vec is
\* filled by thread_rng and freed at the end of the function with its bytes
\* in place; no exit path calls zeroize on it
generate_entropy_at_return(word_count) ==
    IF ~is_supported_word_count(word_count) THEN "unallocated" ELSE "live"

\* Drop of a Wallet: the derived ZeroizeOnDrop wipes the fields that are not
\* marked #[zeroize(skip)], which is master_private_key alone
drop_wallet(w) ==
    [dropped |-> "Wallet", mnemonic |-> w.mnemonic,
     master_private_key |-> IF w.master_private_key = "None" THEN "None" ELSE "zeroized",
     entropy |-> "unallocated"]

\* Drop of a SecureMnemonic: the derived ZeroizeOnDrop wipes the phrase
drop_secure_mnemonic(phrase) ==
    [dropped |-> "SecureMnemonic", mnemonic |-> <<>>, master_private_key |-> "None",
     entropy |-> "unallocated"]

\* Wallet::derive_address
derive_address(w, index) ==
    IF w.mnemonic = <<>>
    THEN Err(Error("Cryptographic", "KdfFailed",
                   "Cannot derive addresses from private key only wallet"))
    ELSE LET derivation_path == w.derivation_path \o <<"/">> \o to_decimal(index)
             built == MnemonicBuilderAddress(w.mnemonic, derivation_path)
         IN  IF ~built.ok THEN Err(built.err)
             ELSE Ok([address |-> built.val, index |-> index,
                      derivation_path |-> derivation_path])

wallet_validate(w) ==
    IF ~validate_ethereum_address(w.address).ok
    THEN Err(validate_ethereum_address(w.address).err)
    ELSE IF ~is_supported_network(w.network)
    THEN Err(Error("Cryptographic", "KdfFailed", "Unsupported network"))
    ELSE IF ~validate_derivation_path(w.derivation_path).ok
    THEN Err(validate_derivation_path(w.derivation_path).err)
    ELSE Ok(<<>>)

\* ------------------------------------------------ library stand-ins
UpperLetters == <<"A","B","C","D","E","F","G","H","I","J","K","L","M",
                  "N","O","P","Q","R","S","T","U","V","W","X","Y","Z">>
LowerLetters == <<"a","b","c","d","e","f","g","h","i","j","k","l","m",
                  "n","o","p","q","r","s","t","u","v","w","x","y","z">>

is_ascii_uppercase(c) == \E i \in 1..26 : UpperLetters[i] = c

is_ascii_lowercase(c) == \E i \in 1..26 : LowerLetters[i] = c

\* the ASCII code of a letter, a digit or one of the punctuation characters
\* the model uses
CharCode(c) ==
    IF is_ascii_digit(c) THEN 48 + DecVal(c)
    ELSE IF is_ascii_uppercase(c) THEN 64 + (CHOOSE i \in 1..26 : UpperLetters[i] = c)
    ELSE IF is_ascii_lowercase(c) THEN 96 + (CHOOSE i \in 1..26 : LowerLetters[i] = c)
    ELSE CASE c = "!" -> 33 [] c = "#" -> 35 [] c = "$" -> 36 [] c = "-" -> 45
           [] c = "?" -> 63 [] c = "@" -> 64 [] c = "_" -> 95 [] OTHER -> 32

\* str::as_bytes
as_bytes(str) == [i \in 1..Len(str) |-> CharCode(str[i])]

\* the bytes of buf at the positions congruent to i modulo n, summed
FoldAt(buf, i, n) ==
    SumSeq([k \in 1..((Len(buf) - i + n) \div n) |-> buf[i + (k - 1) * n]])

\* Stand-in for Argon2id and PBKDF2-HMAC-SHA256: KEY_LENGTH bytes that depend
\* on every byte of the password and of the salt, on the parameters and on
\* which of the two functions ran
KdfOutput(password, salt, cost, tag) ==
    [i \in 1..KEY_LENGTH |->
        (FoldAt(password, i, KEY_LENGTH) + FoldAt(salt, i, KEY_LENGTH)
            + Len(password) + Len(salt) + cost + tag) % 256]

\* Stand-in for HMAC-SHA256: MAC_LENGTH bytes; changing the key, or any one
\* byte of the message, changes the output, and so does in general changing
\* the order of the bytes (each byte counts with an odd weight that depends
\* on its position)
HmacSha256(key, message) ==
    [i \in 1..MAC_LENGTH |->
        (key[((i - 1) % Len(key)) + 1] + Len(message)
            + SumSeq([k \in 1..Len(message) |-> (2 * k + 1) * message[k]])) % 256]

\* Stand-in for AES-256-GCM: a key stream added to the plaintext, followed
\* by an AEAD_TAG_LENGTH byte tag over key, nonce and ciphertext body
KeyStream(key, nonce, i) ==
    (key[((i - 1) % Len(key)) + 1] + nonce[((i - 1) % Len(nonce)) + 1] + i) % 256

AeadTag(key, nonce, body) ==
    [i \in 1..AEAD_TAG_LENGTH |->
        (key[i] + nonce[((i - 1) % Len(nonce)) + 1] + SumSeq(body) + Len(body)) % 256]

Aes256GcmEncrypt(key, nonce, plaintext) ==
    LET body == [i \in 1..Len(plaintext) |->
                    (plaintext[i] + KeyStream(key, nonce, i)) % 256]
    IN  body \o AeadTag(key, nonce, body)

Aes256GcmDecrypt(key, nonce, ciphertext) ==
    IF Len(ciphertext) < AEAD_TAG_LENGTH THEN [ok |-> FALSE, val |-> <<>>]
    ELSE LET n == Len(ciphertext) - AEAD_TAG_LENGTH
             body == SubSeq(ciphertext, 1, n)
             tag == SubSeq(ciphertext, n + 1, Len(ciphertext))
         IN  IF tag # AeadTag(key, nonce, body) THEN [ok |-> FALSE, val |-> <<>>]
             ELSE [ok |-> TRUE,
                   val |-> [i \in 1..n |->
                               (body[i] + 256 - KeyStream(key, nonce, i)) % 256]]

\* ----------------------------------------------------- models/keystore.rs
\* chrono::Utc::now().to_rfc3339() of the instant Now
NowRfc3339 ==
    <<"2","0","2","4","-","0","1","-","0","1","T","0","0",":","0","0",":","0","0",
      "+","0","0",":","0","0">>

\* KdfParams::Argon2 { dklen, memory, time, parallelism, salt }; the fields of
\* the other variant are kept at 0 and ""
KdfParamsArgon2(dklen, memory, time, parallelism, salt) ==
    [variant |-> "Argon2", dklen |-> dklen, memory |-> memory, time |-> time,
     parallelism |-> parallelism, c |-> 0, prf |-> "", salt |-> salt]

\* KdfParams::Pbkdf2 { dklen, c, prf, salt }
KdfParamsPbkdf2(dklen, c, prf, salt) ==
    [variant |-> "Pbkdf2", dklen |-> dklen, memory |-> 0, time |-> 0,
     parallelism |-> 0, c |-> c, prf |-> prf, salt |-> salt]

\* Keystore::new (its _salt argument is unused: the salt travels in kdf_params)
Keystore_new(alias, address, network, encrypted_data, nonce, mac, kdf_params) ==
    [version |-> "1.0.0",
     metadata |-> [alias |-> alias, address |-> address, created_at |-> NowRfc3339,
                   network |-> network, keystore_type |-> "web3wallet-cli"],
     crypto |-> [cipher |-> "aes-256-gcm",
                 ciphertext |-> hex_encode(encrypted_data),
                 cipherparams |-> [iv |-> hex_encode(nonce)],
                 kdf |-> IF kdf_params.variant = "Argon2" THEN "argon2id" ELSE "pbkdf2",
                 kdfparams |-> kdf_params,
                 mac |-> hex_encode(mac)]]

DataCorruption(text) == Error("Cryptographic", "DataCorruption", text)

InvalidKeystoreSchema(text) == Error("Validation", "InvalidKeystoreSchema", text)

encrypted_data(ks) ==
    IF hex_decode(ks.crypto.ciphertext).ok THEN Ok(hex_decode(ks.crypto.ciphertext).val)
    ELSE Err(DataCorruption("Invalid ciphertext hex"))

keystore_salt(ks) ==
    IF hex_decode(ks.crypto.kdfparams.salt).ok
    THEN Ok(hex_decode(ks.crypto.kdfparams.salt).val)
    ELSE Err(DataCorruption("Invalid salt hex"))

keystore_nonce(ks) ==
    IF hex_decode(ks.crypto.cipherparams.iv).ok
    THEN Ok(hex_decode(ks.crypto.cipherparams.iv).val)
    ELSE Err(DataCorruption("Invalid nonce hex"))

keystore_mac(ks) ==
    IF hex_decode(ks.crypto.mac).ok THEN Ok(hex_decode(ks.crypto.mac).val)
    ELSE Err(DataCorruption("Invalid MAC hex"))

\* the last match of Keystore::validate as it would be if it looked at the
\* key length alone
validate_kdfparams_dklen_only(kp) ==
    IF kp.dklen # KEY_LENGTH THEN Err(InvalidKeystoreSchema("Invalid key length"))
    ELSE IF kp.variant = "Pbkdf2" /\ kp.prf # "hmac-sha256"
    THEN Err(InvalidKeystoreSchema("Unsupported PRF"))
    ELSE Ok(<<>>)

\* the last match of Keystore::validate: the parameters of the KDF variant
validate_kdfparams(kp) ==
    IF kp.variant = "Argon2"
    THEN IF kp.dklen # KEY_LENGTH THEN Err(InvalidKeystoreSchema("Invalid key length"))
         ELSE IF kp.memory = 0 \/ kp.time = 0 \/ kp.parallelism = 0
         THEN Err(InvalidKeystoreSchema("Invalid Argon2 parameters"))
         ELSE Ok(<<>>)
    ELSE IF kp.dklen # KEY_LENGTH THEN Err(InvalidKeystoreSchema("Invalid key length"))
         ELSE IF kp.c = 0 THEN Err(InvalidKeystoreSchema("Invalid PBKDF2 iteration count"))
         ELSE IF kp.prf # "hmac-sha256" THEN Err(InvalidKeystoreSchema("Unsupported PRF"))
         ELSE Ok(<<>>)

keystore_validate(ks) ==
    IF ks.version = "" THEN Err(InvalidKeystoreSchema("Missing version"))
    ELSE IF ~validate_ethereum_address(ks.metadata.address).ok
    THEN Err(validate_ethereum_address(ks.metadata.address).err)
    ELSE IF ~is_supported_network(ks.metadata.network)
    THEN Err(InvalidKeystoreSchema("Unsupported network"))
    ELSE IF ks.crypto.cipher # "aes-256-gcm"
    THEN Err(InvalidKeystoreSchema("Unsupported cipher"))
    ELSE IF ks.crypto.kdf \notin {"argon2id", "pbkdf2"}
    THEN Err(InvalidKeystoreSchema("Unsupported KDF"))
    ELSE IF ~encrypted_data(ks).ok THEN Err(encrypted_data(ks).err)
    ELSE IF ~keystore_salt(ks).ok THEN Err(keystore_salt(ks).err)
    ELSE IF ~keystore_nonce(ks).ok THEN Err(keystore_nonce(ks).err)
    ELSE IF ~keystore_mac(ks).ok THEN Err(keystore_mac(ks).err)
    ELSE validate_kdfparams(ks.crypto.kdfparams)

\* ------------------------------------------------------- the inputs drawn
None == <<>>

Some(x) == <<x>>

TEST_MNEMONIC == Append(Rep("abandon", 11), "about")
ZOO_MNEMONIC == Append(Rep("zoo", 11), "wrong")
MNEMONIC_15 == Append(Rep("abandon", 14), "address")
MNEMONIC_24 == Append(Rep("abandon", 23), "art")
ZOO_MNEMONIC_24 == Append(Rep("zoo", 23), "vote")
NOT_BIP39 == <<"invalid", "mnemonic">>

\* phrases given to Wallet::from_mnemonic
\* (twelve times "abandon" has a wrong checksum)
MnemonicInputs ==
    {TEST_MNEMONIC, ZOO_MNEMONIC, MNEMONIC_15, Rep("abandon", 12), NOT_BIP39, <<>>}

\* "testnet" is the network of the integration tests; it is not supported
NetworkInputs == {"mainnet", "testnet"}

AliasInputs == {None, Some("test")}

WordCountInputs == {12, 16, 24}

\* the byte thread_rng() fills the entropy buffer with
EntropyFills == {0, 255}

KEY_ONE == Rep("0", 63) \o <<"1">>
KEY_MIXED_CASE == Rep("a", 32) \o Rep("B", 32)

\* strings given to Wallet::from_private_key
PrivateKeyInputs ==
    {KEY_ONE, <<"0", "x">> \o KEY_ONE, KEY_MIXED_CASE,
     Rep("0", 64), hex_encode(SECP256K1_ORDER), Rep("f", 64),
     Rep("1", 63), Rep("1", 65), Rep("g", 64), <<"0", "x">> \o Rep("1", 62),
     <<"0", "x", "0", "x">> \o Rep("1", 62), <<"0", "X">> \o Rep("1", 62), <<>>}

PASSWORD == <<"T","e","s","t","P","a","s","s","1","2","3","!">>
WRONG_PASSWORD == <<"W","r","o","n","g","P","a","s","s","1","2","3","!">>

PasswordInputs == {PASSWORD, WRONG_PASSWORD}

\* the values thread_rng() can fill the salt and the nonce with
Salts == {Rep(16 + k, SALT_LENGTH) : k \in 1..NumSalts}

Nonces == {Rep(32 + k, NONCE_LENGTH) : k \in 1..NumNonces}

\* the indices given to derive_address: the small ones and one of two digits
IndexInputs == (0..MaxIndex) \cup {10 * MaxIndex + 1}

\* ------------------------------------- serde_json of a Wallet (stand-in)
\* The JSON text of a wallet is stood in for by one byte per serialized field:
\* the position of the field's value in the table of the values the model
\* uses.  master_private_key is #[serde(skip)]: it is not written, and reads
\* back as None.
OTHER_ADDRESS == <<"0", "x">> \o Rep("d", ADDRESS_HEX_LENGTH)
SHORT_ADDRESS == <<"0", "x", "1", "2">>

WalletAddress(phrase) == EthAddress(phrase, ParsePath(BUILDER_DEFAULT_PATH).comps)

MnemonicTable ==
    <<<<>>, TEST_MNEMONIC, ZOO_MNEMONIC, MNEMONIC_15, MNEMONIC_24, ZOO_MNEMONIC_24,
      NOT_BIP39>>

AddressTable ==
    <<WalletAddress(TEST_MNEMONIC), WalletAddress(ZOO_MNEMONIC), WalletAddress(MNEMONIC_15),
      WalletAddress(MNEMONIC_24), WalletAddress(ZOO_MNEMONIC_24),
      KeyAddress(hex_decode(KEY_ONE).val), KeyAddress(hex_decode(KEY_MIXED_CASE).val),
      OTHER_ADDRESS, SHORT_ADDRESS>>

PathTable == <<DEFAULT_DERIVATION_PATH, <<"m", "/", "0">>, <<"4", "4", "'">>>>

NetworkTable == <<"mainnet", "testnet", "sepolia">>

AliasTable == <<None, Some("test")>>

TimeTable == <<Now>>

Code(table, v) == CHOOSE i \in 1..Len(table) : table[i] = v

serialize_wallet(w) ==
    <<Code(MnemonicTable, w.mnemonic), Code(AddressTable, w.address),
      Code(PathTable, w.derivation_path), Code(NetworkTable, w.network),
      Code(TimeTable, w.created_at), Code(AliasTable, w.alias)>>

deserialize_wallet(bytes) ==
    IF \/ Len(bytes) # 6
       \/ \E i \in 1..Len(bytes) : bytes[i] = 0
       \/ bytes[1] > Len(MnemonicTable) \/ bytes[2] > Len(AddressTable)
       \/ bytes[3] > Len(PathTable) \/ bytes[4] > Len(NetworkTable)
       \/ bytes[5] > Len(TimeTable) \/ bytes[6] > Len(AliasTable)
    THEN Err(DataCorruption("Wallet deserialization failed"))
    ELSE Ok(MkWallet(MnemonicTable[bytes[1]], "None", AddressTable[bytes[2]],
                     PathTable[bytes[3]], NetworkTable[bytes[4]], TimeTable[bytes[5]],
                     AliasTable[bytes[6]]))

\* ------------------------------------------------------ services/crypto.rs
KdfFailed(text) == Error("Cryptographic", "KdfFailed", text)

DecryptionFailed(text) == Error("Cryptographic", "DecryptionFailed", text)

derive_key_argon2(password, salt, memory, iterations, parallelism) ==
    IF \/ memory < ARGON2_MIN_BLOCKS_PER_LANE * parallelism
       \/ iterations < 1 \/ parallelism < 1
    THEN Err(KdfFailed("Invalid Argon2 parameters"))
    ELSE IF Len(salt) < ARGON2_MIN_SALT_LENGTH
    THEN Err(KdfFailed("Argon2 key derivation failed"))
    ELSE Ok(KdfOutput(password, salt, memory + 3 * iterations + 5 * parallelism, 1))

pbkdf2_hmac(password, salt, c) == KdfOutput(password, salt, c, 2)

\* the comparison of the MACs as it would be if it stopped after the first
\* half of the bytes
mac_differs_in_first_half(computed_mac, stored_mac) ==
    SubSeq(computed_mac, 1, MAC_LENGTH \div 2)
        # SubSeq(stored_mac, 1, Len(stored_mac) \div 2)

\* the comparison of the MACs as it would be if it let every MAC pass
mac_differs_never(computed_mac, stored_mac) == FALSE

\* decrypt_wallet's test `computed_mac != stored_mac`
mac_differs(computed_mac, stored_mac) == computed_mac # stored_mac

\* compute_mac as it would be if it fed the nonce to the HMAC first
compute_mac_nonce_first(key, ciphertext, nonce) == HmacSha256(key, nonce \o ciphertext)

\* CryptoService::compute_mac: HMAC-SHA256 over ciphertext || nonce
compute_mac(key, ciphertext, nonce) == HmacSha256(key, ciphertext \o nonce)

\* What a call of encrypt_wallet or decrypt_wallet leaves behind: its result,
\* the steps it ran in order, the content of key_bytes when the call ended
\* ("unallocated", "blank" = still the zeros it was created with, "live" = the
\* derived key, "zeroized"), and whether it ended in a panic
Outcome(res, steps, key, panic) ==
    [res |-> res, steps |-> steps, key |-> key, panic |-> panic]

\* encrypt_wallet with the salt and the nonce thread_rng() produced
encrypt_wallet(wallet, password, use_argon2, salt, nonce_bytes) ==
    LET wallet_data == serialize_wallet(wallet)
        cfg == get_argon2_config
        kdf == IF use_argon2
               THEN derive_key_argon2(as_bytes(password), salt, cfg.memory,
                                      cfg.iterations, cfg.parallelism)
               ELSE Ok(pbkdf2_hmac(as_bytes(password), salt, PBKDF2_ITERATIONS))
        kdf_params == IF use_argon2
                      THEN KdfParamsArgon2(KEY_LENGTH, cfg.memory, cfg.iterations,
                                           cfg.parallelism, hex_encode(salt))
                      ELSE KdfParamsPbkdf2(KEY_LENGTH, PBKDF2_ITERATIONS, "hmac-sha256",
                                           hex_encode(salt))
    IN  IF ~kdf.ok THEN Outcome(Err(kdf.err), <<"serialize", "kdf">>, "blank", FALSE)
        ELSE LET key_bytes == kdf.val
                 ciphertext == Aes256GcmEncrypt(key_bytes, nonce_bytes, wallet_data)
                 mac == compute_mac(key_bytes, ciphertext, nonce_bytes)
             IN  Outcome(Ok(Keystore_new(wallet.alias, wallet.address, wallet.network,
                                         ciphertext, nonce_bytes, mac, kdf_params)),
                         <<"serialize", "kdf", "aead", "hmac", "zeroize">>,
                         "zeroized", FALSE)

\* the KDF decrypt_wallet runs: chosen by the variant of kdfparams
decrypt_kdf(keystore, password, salt) ==
    LET kp == keystore.crypto.kdfparams
    IN  IF kp.variant = "Argon2"
        THEN derive_key_argon2(as_bytes(password), salt, kp.memory, kp.time, kp.parallelism)
        ELSE Ok(pbkdf2_hmac(as_bytes(password), salt, kp.c))

\* decrypt_wallet from the MAC check on, with the key derived
decrypt_with_key(keystore, key_bytes) ==
    LET ciphertext == encrypted_data(keystore).val
        nonce == keystore_nonce(keystore).val
        stored_mac == keystore_mac(keystore).val
        computed_mac == compute_mac(key_bytes, ciphertext, nonce)
    IN  IF mac_differs(computed_mac, stored_mac)
        THEN Outcome(Err(DecryptionFailed(
                 "MAC verification failed - wrong password or corrupted data")),
                 <<"validate", "kdf", "hmac">>, "live", FALSE)
        ELSE IF Len(nonce) # NONCE_LENGTH
        THEN Outcome(Err(Error("panic", "panic", "Nonce::from_slice")),
                     <<"validate", "kdf", "hmac">>, "live", TRUE)
        ELSE LET plain == Aes256GcmDecrypt(key_bytes, nonce, ciphertext)
             IN  IF ~plain.ok
                 THEN Outcome(Err(DecryptionFailed("Decryption failed: aead::Error")),
                              <<"validate", "kdf", "hmac", "aead">>, "live", FALSE)
                 ELSE LET w == deserialize_wallet(plain.val)
                      IN  IF ~w.ok
                          THEN Outcome(Err(w.err),
                                   <<"validate", "kdf", "hmac", "aead", "zeroize",
                                     "deserialize">>, "zeroized", FALSE)
                          ELSE IF ~wallet_validate(w.val).ok
                          THEN Outcome(Err(wallet_validate(w.val).err),
                                   <<"validate", "kdf", "hmac", "aead", "zeroize",
                                     "deserialize", "wallet_validate">>, "zeroized", FALSE)
                          ELSE Outcome(Ok(w.val),
                                   <<"validate", "kdf", "hmac", "aead", "zeroize",
                                     "deserialize", "wallet_validate">>, "zeroized", FALSE)

decrypt_wallet(keystore, password) ==
    IF ~keystore_validate(keystore).ok
    THEN Outcome(Err(keystore_validate(keystore).err), <<"validate">>, "unallocated", FALSE)
    ELSE LET kdf == decrypt_kdf(keystore, password, keystore_salt(keystore).val)
         IN  IF ~kdf.ok THEN Outcome(Err(kdf.err), <<"validate", "kdf">>, "blank", FALSE)
             ELSE decrypt_with_key(keystore, kdf.val)

\* ------------------------------------------- keystores of another origin
\* decrypt_wallet takes any Keystore value, and load_keystore reads any file:
\* a keystore need not come from encrypt_wallet.  These are the wallets a
\* foreign writer, who knows the format and the password, may have encrypted.
ForeignWallets ==
    {MkWallet(TEST_MNEMONIC, "None", WalletAddress(TEST_MNEMONIC), DEFAULT_DERIVATION_PATH,
              "mainnet", Now, None),
     MkWallet(TEST_MNEMONIC, "None", OTHER_ADDRESS, DEFAULT_DERIVATION_PATH,
              "mainnet", Now, None),
     MkWallet(TEST_MNEMONIC, "None", WalletAddress(TEST_MNEMONIC), <<"m", "/", "0">>,
              "mainnet", Now, None),
     MkWallet(NOT_BIP39, "None", OTHER_ADDRESS, DEFAULT_DERIVATION_PATH,
              "mainnet", Now, None),
     MkWallet(TEST_MNEMONIC, "None", SHORT_ADDRESS, DEFAULT_DERIVATION_PATH,
              "mainnet", Now, None),
     MkWallet(TEST_MNEMONIC, "None", WalletAddress(TEST_MNEMONIC), <<"4", "4", "'">>,
              "mainnet", Now, None),
     MkWallet(TEST_MNEMONIC, "None", WalletAddress(TEST_MNEMONIC), DEFAULT_DERIVATION_PATH,
              "testnet", Now, None)}

\* plaintexts of a foreign keystore: the wallets above, and bytes that are no
\* wallet at all
ForeignPlaintexts == {serialize_wallet(w) : w \in ForeignWallets} \cup {<<200>>}

\* the iv of a foreign keystore: of the length encrypt_wallet uses, or of the
\* 16 bytes other keystore writers put in cipherparams.iv.  Keystore::validate
\* asks of the iv only that it is hex.
ForeignNonces == Nonces \cup {Rep(33, NONCE_LENGTH + 4)}

\* a keystore written by a foreign writer under `password`, in the format and
\* with the parameters encrypt_wallet uses; its clear-text metadata names a
\* well-formed address and a supported network
ForeignKeystore(plaintext, address, password, salt, nonce) ==
    LET cfg == get_argon2_config
        key == KdfOutput(as_bytes(password), salt,
                         cfg.memory + 3 * cfg.iterations + 5 * cfg.parallelism, 1)
        ciphertext == Aes256GcmEncrypt(key, nonce, plaintext)
    IN  Keystore_new(None, address, "mainnet", ciphertext, nonce,
                     HmacSha256(key, ciphertext \o nonce),
                     KdfParamsArgon2(KEY_LENGTH, cfg.memory, cfg.iterations,
                                     cfg.parallelism, hex_encode(salt)))

\* --------------------------------------------------- the keystore as JSON
\* A JSON text is modelled by whether it is well-formed JSON and by the
\* members of its object, named by their path.  Values keep the type serde
\* wrote them with.
CommonMembers ==
    {"version", "metadata.alias", "metadata.address", "metadata.created_at",
     "metadata.network", "metadata.keystore_type", "crypto.cipher", "crypto.ciphertext",
     "crypto.cipherparams.iv", "crypto.kdf", "crypto.mac"}

\* the members of KdfParams::Argon2 and of KdfParams::Pbkdf2; the enum is
\* #[serde(untagged)], so nothing else tells the variants apart
Argon2Members ==
    {"crypto.kdfparams.dklen", "crypto.kdfparams.memory", "crypto.kdfparams.time",
     "crypto.kdfparams.parallelism", "crypto.kdfparams.salt"}

Pbkdf2Members ==
    {"crypto.kdfparams.dklen", "crypto.kdfparams.c", "crypto.kdfparams.prf",
     "crypto.kdfparams.salt"}

\* the value serde writes for one member of a Keystore
MemberOf(ks, k) ==
    CASE k = "version" -> ks.version
      [] k = "metadata.alias" -> ks.metadata.alias
      [] k = "metadata.address" -> ks.metadata.address
      [] k = "metadata.created_at" -> ks.metadata.created_at
      [] k = "metadata.network" -> ks.metadata.network
      [] k = "metadata.keystore_type" -> ks.metadata.keystore_type
      [] k = "crypto.cipher" -> ks.crypto.cipher
      [] k = "crypto.ciphertext" -> ks.crypto.ciphertext
      [] k = "crypto.cipherparams.iv" -> ks.crypto.cipherparams.iv
      [] k = "crypto.kdf" -> ks.crypto.kdf
      [] k = "crypto.mac" -> ks.crypto.mac
      [] k = "crypto.kdfparams.dklen" -> ks.crypto.kdfparams.dklen
      [] k = "crypto.kdfparams.memory" -> ks.crypto.kdfparams.memory
      [] k = "crypto.kdfparams.time" -> ks.crypto.kdfparams.time
      [] k = "crypto.kdfparams.parallelism" -> ks.crypto.kdfparams.parallelism
      [] k = "crypto.kdfparams.c" -> ks.crypto.kdfparams.c
      [] k = "crypto.kdfparams.prf" -> ks.crypto.kdfparams.prf
      [] k = "crypto.kdfparams.salt" -> ks.crypto.kdfparams.salt

\* Keystore::to_json: serde_json::to_string_pretty writes the members of the
\* struct and, for kdfparams, those of the variant at hand
to_json(ks) ==
    LET names == CommonMembers \cup (IF ks.crypto.kdfparams.variant = "Argon2"
                                     THEN Argon2Members ELSE Pbkdf2Members)
    IN  Ok([wellformed |-> TRUE, members |-> [k \in names |-> MemberOf(ks, k)]])

\* serde_json::from_str::<Keystore>: the text has to be JSON, every member
\* but the Option has to be there, and kdfparams is the first variant, in
\* declaration order, all of whose members are there (others are ignored)
serde_json_from_str(json) ==
    LET m == json.members
        has == DOMAIN m
    IN  IF ~json.wellformed THEN [ok |-> FALSE, val |-> <<>>]
        ELSE IF ~((CommonMembers \ {"metadata.alias"}) \subseteq has)
        THEN [ok |-> FALSE, val |-> <<>>]
        ELSE IF ~(Argon2Members \subseteq has) /\ ~(Pbkdf2Members \subseteq has)
        THEN [ok |-> FALSE, val |-> <<>>]
        ELSE [ok |-> TRUE,
              val |-> [version |-> m["version"],
                       metadata |-> [alias |-> IF "metadata.alias" \in has
                                               THEN m["metadata.alias"] ELSE None,
                                     address |-> m["metadata.address"],
                                     created_at |-> m["metadata.created_at"],
                                     network |-> m["metadata.network"],
                                     keystore_type |-> m["metadata.keystore_type"]],
                       crypto |-> [cipher |-> m["crypto.cipher"],
                                   ciphertext |-> m["crypto.ciphertext"],
                                   cipherparams |-> [iv |-> m["crypto.cipherparams.iv"]],
                                   kdf |-> m["crypto.kdf"],
                                   kdfparams |->
                                       IF Argon2Members \subseteq has
                                       THEN KdfParamsArgon2(m["crypto.kdfparams.dklen"],
                                                m["crypto.kdfparams.memory"],
                                                m["crypto.kdfparams.time"],
                                                m["crypto.kdfparams.parallelism"],
                                                m["crypto.kdfparams.salt"])
                                       ELSE KdfParamsPbkdf2(m["crypto.kdfparams.dklen"],
                                                m["crypto.kdfparams.c"],
                                                m["crypto.kdfparams.prf"],
                                                m["crypto.kdfparams.salt"]),
                                   mac |-> m["crypto.mac"]]]]

\* Keystore::from_json
from_json(json) ==
    LET keystore == serde_json_from_str(json)
    IN  IF ~keystore.ok
        THEN Err(InvalidKeystoreSchema("JSON deserialization failed"))
        ELSE IF ~keystore_validate(keystore.val).ok
        THEN Err(keystore_validate(keystore.val).err)
        ELSE Ok(keystore.val)

\* ---- what may happen to a keystore file between its writing and its reading
ToggleCase(c) ==
    IF is_ascii_lowercase(c)
    THEN UpperLetters[CHOOSE i \in 1..26 : LowerLetters[i] = c]
    ELSE IF is_ascii_uppercase(c)
    THEN LowerLetters[CHOOSE i \in 1..26 : UpperLetters[i] = c]
    ELSE c

\* str::to_lowercase as it would be if it left the string as it is
to_lowercase_unchanged(str) == str

\* str::to_lowercase, on ASCII
to_lowercase(str) ==
    [i \in 1..Len(str) |-> IF is_ascii_uppercase(str[i]) THEN ToggleCase(str[i]) ELSE str[i]]

\* the characters put in the place of the hex digit c: the same digit in the
\* other case, the digit of the next value, and a character that is no digit
Replacements(c) ==
    ({ToggleCase(c)} \ {c}) \cup {HexLower[((HexVal(c) + 1) % 16) + 1], "g"}

\* the members set to another value, with the values they are set to
FieldEdits ==
    {<<"metadata.address", OTHER_ADDRESS>>, <<"metadata.address", SHORT_ADDRESS>>,
     <<"metadata.network", "testnet">>, <<"version", "">>,
     <<"crypto.cipher", "aes-128-ctr">>, <<"crypto.kdf", "scrypt">>,
     <<"crypto.kdf", "pbkdf2">>, <<"crypto.kdf", "argon2id">>,
     <<"crypto.kdfparams.memory", 0>>, <<"crypto.kdfparams.time", 0>>,
     <<"crypto.kdfparams.parallelism", 0>>, <<"crypto.kdfparams.c", 0>>,
     <<"crypto.kdfparams.dklen", 16>>, <<"crypto.kdfparams.prf", "hmac-sha1">>,
     <<"crypto.cipherparams.iv", <<"z", "z">>>>,
     <<"crypto.kdfparams.salt", <<"a", "b", "c">>>>}

\* the members a damaged file has lost
DroppedMembers == {"version", "metadata.alias", "crypto.mac", "crypto.kdfparams.salt"}

\* ------------------------------------------------------- the file system
\* Path::components: the parts between separators; empty parts and "." are
\* dropped, ".." is Component::ParentDir
components(path) ==
    SelectSeq(split_slash(path), LAMBDA part : part # <<>> /\ part # <<".">>)

ParentDir == <<".", ".">>

FileSystemError(kind) == Error("FileSystem", kind, "")

\* validate_file_path as it would be if it looked at the first component only
validate_file_path_first_only(path) ==
    IF components(path) # <<>> /\ components(path)[1] = ParentDir
    THEN Err(FileSystemError("PathTraversal"))
    ELSE Ok(<<>>)

\* utils::validate_file_path
validate_file_path(path) ==
    IF \E i \in 1..Len(components(path)) : components(path)[i] = ParentDir
    THEN Err(FileSystemError("PathTraversal"))
    ELSE Ok(<<>>)

KEYSTORE_FILE_PERMISSIONS == "0600"
WALLET_DIR_PERMISSIONS == "0700"
MAX_KEYSTORE_SIZE == 1048576

\* the mode a file gets from tokio::fs::write under the usual umask
CREATED_FILE_MODE == "0644"

\* the mode a directory gets from tokio::fs::create_dir_all under the usual umask
CREATED_DIR_MODE == "0755"

\* A file system: the directories, with their modes, and the files, each
\* named by the components of its path from the working directory
IsDir(fsys, comps) == comps \in fsys.dirs

IsFile(fsys, comps) == \E f \in fsys.files : f.at = comps

FileAt(fsys, comps) == CHOOSE f \in fsys.files : f.at = comps

\* Path::exists as it would be if it saw directories only
exists_as_directory(fsys, path) == IsDir(fsys, components(path))

\* Path::exists
exists(fsys, path) == IsDir(fsys, components(path)) \/ IsFile(fsys, components(path))

\* Path::parent: the path without its last component
parent(path) ==
    IF components(path) = <<>> THEN <<>>
    ELSE SubSeq(components(path), 1, Len(components(path)) - 1)

\* tokio::fs::create_dir_all: creates every missing directory down to comps,
\* and fails at the first part of the way that is a file
create_dir_all(fsys, comps) ==
    LET blocked == {n \in 1..Len(comps) : IsFile(fsys, SubSeq(comps, 1, n))}
        upto == IF blocked = {} THEN Len(comps)
                ELSE (CHOOSE n \in blocked : \A k \in blocked : n <= k) - 1
        all == fsys.dirs \cup {SubSeq(comps, 1, n) : n \in 0..upto}
    IN  [ok |-> blocked = {},
         fs |-> [fsys EXCEPT !.dirs = all,
                             !.dirmode = [d \in all |-> IF d \in fsys.dirs THEN fsys.dirmode[d]
                                                        ELSE CREATED_DIR_MODE]]]

\* the length of the text to_json_pretty writes: a stand-in, far below the limit
json_len(json) == 64 * Cardinality(DOMAIN json.members)

\* What a call of save_keystore or load_keystore leaves behind: its result,
\* the calls that create, write or read it made in order, and the file system
IoOutcome(res, effects, fsys) == [res |-> res, effects |-> effects, fs |-> fsys]

\* CryptoService::save_keystore
save_keystore(fsys, keystore, path) ==
    IF ~validate_file_path(path).ok
    THEN IoOutcome(Err(validate_file_path(path).err), <<>>, fsys)
    ELSE LET made == create_dir_all(fsys, parent(path))
         IN  IF ~made.ok
             THEN IoOutcome(Err(FileSystemError("DirectoryNotAccessible")),
                            <<"create_dir_all">>, made.fs)
             ELSE IF exists(made.fs, path)
             THEN IoOutcome(Err(FileSystemError("FileExists")), <<"create_dir_all">>, made.fs)
             ELSE IF components(path) = <<>>
             THEN IoOutcome(Err(FileSystemError("PermissionDenied")),
                            <<"create_dir_all", "write">>, made.fs)
             ELSE LET json_data == to_json(keystore).val
                      written == [at |-> components(path), content |-> json_data,
                                  len |-> json_len(json_data),
                                  mode |-> KEYSTORE_FILE_PERMISSIONS]
                  IN  IoOutcome(Ok(<<>>), <<"create_dir_all", "write", "set_permissions">>,
                                [made.fs EXCEPT !.files = @ \cup {written}])

\* CryptoService::load_keystore
load_keystore(fsys, path) ==
    IF ~validate_file_path(path).ok
    THEN IoOutcome(Err(validate_file_path(path).err), <<>>, fsys)
    ELSE IF ~exists(fsys, path)
    THEN IoOutcome(Err(FileSystemError("FileNotFound")), <<>>, fsys)
    ELSE IF ~IsFile(fsys, components(path))
    THEN IoOutcome(Err(FileSystemError("PermissionDenied")), <<"read">>, fsys)
    ELSE LET f == FileAt(fsys, components(path))
         IN  IF f.len > MAX_KEYSTORE_SIZE
             THEN IoOutcome(Err(FileSystemError("InvalidFormat")), <<"read">>, fsys)
             ELSE IoOutcome(from_json(f.content), <<"read">>, fsys)

\* the paths given to save_keystore and load_keystore
PATH_OLD == <<"w", "a", "l", "l", "e", "t", "s", "/", "o", "l", "d", ".", "j", "s", "o", "n">>
PATH_BIG == <<"w", "a", "l", "l", "e", "t", "s", "/", "b", "i", "g", ".", "j", "s", "o", "n">>

PathInputs ==
     \* k.json
    {<<"k", ".", "j", "s", "o", "n">>,
     \* wallets/k.json
     <<"w", "a", "l", "l", "e", "t", "s", "/", "k", ".", "j", "s", "o", "n">>,
     PATH_OLD,
     PATH_BIG,
     \* ../k.json
     <<".", ".", "/", "k", ".", "j", "s", "o", "n">>,
     \* wallets/../k.json
     <<"w", "a", "l", "l", "e", "t", "s", "/", ".", ".", "/", "k", ".", "j", "s", "o", "n">>,
     \* wallets/..
     <<"w", "a", "l", "l", "e", "t", "s", "/", ".", ".">>,
     \* wallets/..b/k.json
     <<"w", "a", "l", "l", "e", "t", "s", "/", ".", ".", "b", "/", "k", ".", "j", "s", "o", "n">>,
     \* new/deep/k.json
     <<"n", "e", "w", "/", "d", "e", "e", "p", "/", "k", ".", "j", "s", "o", "n">>,
     \* wallets//./k.json
     <<"w", "a", "l", "l", "e", "t", "s", "/", "/", ".", "/", "k", ".", "j", "s", "o", "n">>,
     \* wallets
     <<"w", "a", "l", "l", "e", "t", "s">>}

\* a text that is no JSON
NoFileText == [wellformed |-> FALSE, members |-> <<>>]

\* a working directory with nothing in it
EmptyFs ==
    [dirs |-> {<<>>}, files |-> {}, dirmode |-> [d \in {<<>>} |-> CREATED_DIR_MODE]]

\* a working directory with a wallets directory that holds a keystore written
\* earlier and a file that is too large to be one
UsedFs(keystore) ==
    [dirs |-> {<<>>, parent(PATH_OLD)},
     dirmode |-> [d \in {<<>>, parent(PATH_OLD)} |-> CREATED_DIR_MODE],
     files |-> {[at |-> components(PATH_OLD), content |-> to_json(keystore).val,
                 len |-> json_len(to_json(keystore).val),
                 mode |-> KEYSTORE_FILE_PERMISSIONS],
                [at |-> components(PATH_BIG), content |-> NoFileText,
                 len |-> MAX_KEYSTORE_SIZE + 1, mode |-> CREATED_FILE_MODE]}]

\* ------------------------------------------------------ models/address.rs
\* An Address: balance, nonce and label are None in every value below and
\* are left out
MkAddress(address, network, index, derivation_path) ==
    [address |-> address, index |-> index, derivation_path |-> derivation_path,
     network |-> network]

\* Address::new
Address_new(address, network, index, derivation_path) ==
    IF ~validate_ethereum_address(address).ok
    THEN Err(validate_ethereum_address(address).err)
    ELSE IF ~is_supported_network(network)
    THEN Err(Error("Validation", "InvalidAddressFormat", "network"))
    ELSE IF derivation_path # None /\ ~validate_derivation_path(derivation_path[1]).ok
    THEN Err(validate_derivation_path(derivation_path[1]).err)
    ELSE Ok(MkAddress(to_lowercase(address), network, index, derivation_path))

\* Address::from_string
Address_from_string(address, network) == Address_new(address, network, None, None)

\* Address::derived
Address_derived(address, network, index, derivation_path) ==
    Address_new(address, network, Some(index), Some(derivation_path))

\* str::ends_with
ends_with(str, suffix) ==
    /\ Len(str) >= Len(suffix)
    /\ SubSeq(str, Len(str) - Len(suffix) + 1, Len(str)) = suffix

\* Address::validate
Address_validate(self) ==
    IF ~validate_ethereum_address(self.address).ok
    THEN Err(validate_ethereum_address(self.address).err)
    ELSE IF ~is_supported_network(self.network)
    THEN Err(Error("Validation", "InvalidAddressFormat", "network"))
    ELSE IF self.derivation_path = None THEN Ok(<<>>)
    ELSE IF ~validate_derivation_path(self.derivation_path[1]).ok
    THEN Err(validate_derivation_path(self.derivation_path[1]).err)
    ELSE IF self.index = None
    THEN Err(Error("Validation", "IntegrityCheckFailed", "address"))
    ELSE IF ~ends_with(self.derivation_path[1], <<"/">> \o to_decimal(self.index[1]))
    THEN Err(Error("Validation", "IntegrityCheckFailed", "address"))
    ELSE Ok(<<>>)

\* Address::equals
equals(self, other) == to_lowercase(self.address) = to_lowercase(other)

\* AddressBook::new
AddressBook_new(default_network) ==
    [addresses |-> <<>>, default_network |-> default_network]

\* AddressBook::add: the result, and the book when the call returns
AddressBook_add(self, address) ==
    IF ~Address_validate(address).ok
    THEN [res |-> Err(Address_validate(address).err), book |-> self]
    ELSE IF \E i \in 1..Len(self.addresses) : self.addresses[i].address = address.address
    THEN [res |-> Err(Error("Validation", "IntegrityCheckFailed", "address_book")),
          book |-> self]
    ELSE [res |-> Ok(<<>>),
          book |-> [self EXCEPT !.addresses = Append(@, address)]]

\* AddressBook::remove
AddressBook_remove(self, address) ==
    LET kept == SelectSeq(self.addresses, LAMBDA a : ~equals(a, address))
    IN  [res |-> Len(kept) < Len(self.addresses),
         book |-> [self EXCEPT !.addresses = kept]]

\* AddressBook::find
AddressBook_find(self, address) ==
    LET found == SelectSeq(self.addresses, LAMBDA a : equals(a, address))
    IN  IF found = <<>> THEN None ELSE Some(found[1])

\* ------------------------------------------- services/wallet_manager.rs
MIN_PASSWORD_LENGTH == 8
MAX_PASSWORD_LENGTH == 1024

\* CryptoService::validate_password
validate_password(password) ==
    LET any(test(_)) == \E i \in 1..Len(password) : test(password[i])
        special(c) == c \in {"!", "@", "#", "$", "%", "^", "&", "*", "(", ")", "_", "+",
                             "-", "=", "[", "]", "{", "}", "|", ";", ":", ",", ".", "<",
                             ">", "?"}
    IN  IF /\ Len(password) >= MIN_PASSWORD_LENGTH
           /\ Len(password) <= MAX_PASSWORD_LENGTH
           /\ any(is_ascii_lowercase)
           /\ any(is_ascii_uppercase)
           /\ any(is_ascii_digit)
           /\ any(special)
        THEN Ok(<<>>)
        ELSE Err(Error("Authentication", "WeakPassword", "requirements"))

\* MnemonicService::generate with the bytes thread_rng() filled the entropy
\* buffer with; the phrase of the SecureMnemonic it returns
MnemonicService_generate(word_count, fill) ==
    IF ~is_supported_word_count(word_count)
    THEN Err(Error("Cryptographic", "InvalidMnemonic", "Unsupported word count"))
    ELSE Ok(from_entropy(Rep(fill, entropy_bits_for_word_count(word_count) \div 8)))

\* MnemonicService::validate
MnemonicService_validate(mnemonic_str) ==
    IF ~Bip39Valid(mnemonic_str)
    THEN Err(Error("Cryptographic", "InvalidMnemonic", "from_str"))
    ELSE IF ~is_supported_word_count(Len(mnemonic_str))
    THEN Err(Error("Cryptographic", "InvalidMnemonic", "Unsupported word count"))
    ELSE Ok(mnemonic_str)

\* WalletManager::create_wallet of a manager configured with `network`
create_wallet(network, word_count, fill) ==
    LET mnemonic == MnemonicService_generate(word_count, fill)
    IN  IF ~mnemonic.ok THEN mnemonic ELSE from_mnemonic(mnemonic.val, network, None)

\* WalletManager::import_from_mnemonic
import_from_mnemonic(network, mnemonic_str) ==
    LET mnemonic == MnemonicService_validate(mnemonic_str)
    IN  IF ~mnemonic.ok THEN mnemonic ELSE from_mnemonic(mnemonic.val, network, None)

\* WalletConfig: the network and the KDF settings a WalletManager is made with
WalletConfig(network, kdf_iterations, kdf_memory, kdf_parallelism) ==
    [network |-> network, kdf_iterations |-> kdf_iterations, kdf_memory |-> kdf_memory,
     kdf_parallelism |-> kdf_parallelism]

\* WalletManager::save_wallet of a manager made with `config`
save_wallet(config, fsys, wallet, path, password, salt, nonce_bytes) ==
    IF ~validate_password(password).ok
    THEN IoOutcome(Err(validate_password(password).err), <<>>, fsys)
    ELSE LET keystore == encrypt_wallet(wallet, password, TRUE, salt, nonce_bytes).res
         IN  IF ~keystore.ok THEN IoOutcome(Err(keystore.err), <<>>, fsys)
             ELSE save_keystore(fsys, keystore.val, path)

\* WalletManager::load_wallet of a manager made with `config`
load_wallet(config, fsys, path, password) ==
    LET keystore == load_keystore(fsys, path).res
    IN  IF ~keystore.ok THEN Outcome(Err(keystore.err), <<>>, "unallocated", FALSE)
        ELSE decrypt_wallet(keystore.val, password)

\* --------------------------------------------------------------- main.rs
\* Path::extension of a file name: what follows its last dot, unless the
\* name has no dot or its only dot is the first character
extension(name) ==
    LET dots == {i \in 2..Len(name) : name[i] = "."}
    IN  IF dots = {} THEN None
        ELSE Some(SubSeq(name, (CHOOSE i \in dots : \A j \in dots : j <= i) + 1, Len(name)))

\* the columns of the CREATED cell: created_at[..19]
CREATED_AT_SHOWN == 19

\* execute_list on the directory wallet_dir with the output format given.
\* The result is the set of the file names listed; a slice beyond the end of
\* a string panics.
execute_list(fsys, wallet_dir, output) ==
    IF ~exists(fsys, wallet_dir)
    THEN LET made == create_dir_all(fsys, components(wallet_dir))
         IN  IF ~made.ok
             THEN IoOutcome(Err(FileSystemError("DirectoryNotAccessible")),
                            <<"create_dir_all">>, made.fs)
             ELSE IoOutcome(Ok({}), <<"create_dir_all">>, made.fs)
    ELSE IF ~IsDir(fsys, components(wallet_dir))
    THEN IoOutcome(Err(FileSystemError("DirectoryNotAccessible")), <<"read_dir">>, fsys)
    ELSE LET inside(at) == at # <<>> /\ SubSeq(at, 1, Len(at) - 1) = components(wallet_dir)
             entries == {f.at[Len(f.at)] : f \in {g \in fsys.files : inside(g.at)}}
                          \cup {d[Len(d)] : d \in {e \in fsys.dirs : inside(e)}}
             loaded(name) == load_keystore(fsys, wallet_dir \o <<"/">> \o name).res
             wallets == {name \in entries :
                            extension(name) = Some(<<"j", "s", "o", "n">>) /\ loaded(name).ok}
         IN  IF /\ output = "Table"
                /\ \E name \in wallets :
                      Len(loaded(name).val.metadata.created_at) < CREATED_AT_SHOWN
             THEN IoOutcome(Err(Error("panic", "panic", "created_at[..19]")),
                            <<"read_dir", "load_keystore">>, fsys)
             ELSE IoOutcome(Ok(wallets), <<"read_dir", "load_keystore">>, fsys)

\* -------------------------------------------------------------- errors.rs
\* The variants of the six error enums in the order of their declaration.
\* The message of the i-th variant of an enum, its #[error] attribute, starts
\* with the prefix of the enum and the number i: "FS_002: Wallet file not
\* found".
ErrorVariants ==
    [Cryptographic |->
        <<"InsufficientEntropy", "InvalidMnemonic", "InvalidPrivateKey", "DecryptionFailed",
          "DataCorruption", "InvalidDerivationPath", "IndexOutOfRange", "KdfFailed",
          "SignatureFailed", "AddressGenerationFailed">>,
     FileSystem |->
        <<"PermissionDenied", "FileNotFound", "DirectoryNotAccessible", "InsufficientSpace",
          "FileExists", "InvalidFormat", "PathTraversal", "LockFailed">>,
     UserInput |->
        <<"InvalidParameters", "ConflictingOptions", "MissingParameter", "ValueOutOfRange",
          "UnsupportedFormat", "InvalidNetwork", "PasswordMismatch", "Timeout">>,
     Authentication |->
        <<"WrongPassword", "WeakPassword", "MaxAttemptsExceeded", "SessionTimeout",
          "UserCanceled">>,
     Network |->
        <<"ConnectivityFailure", "RequestTimeout", "InvalidConfiguration",
          "RateLimitExceeded", "UnsupportedProtocol">>,
     Validation |->
        <<"InvalidAddressFormat", "InvalidKeystoreSchema", "InvalidCommandSyntax",
          "IntegrityCheckFailed", "VersionIncompatible">>]

\* the prefix of the codes of each enum
CodePrefix ==
    [Cryptographic |-> "CRYPTO", FileSystem |-> "FS", UserInput |-> "INPUT",
     Authentication |-> "AUTH", Network |-> "NETWORK", Validation |-> "VALIDATION"]

\* the code the Display message of an error of the six enums starts with
display_code(err) ==
    LET i == CHOOSE k \in 1..Len(ErrorVariants[err.cat]) : ErrorVariants[err.cat][k] = err.kind
    IN  CodePrefix[err.cat] \o "_" \o (IF i < 10 THEN "00" ELSE "0") \o ToString(i)

\* WalletError::code: CryptographicError::code has an arm for each variant;
\* the code() that impl_error_traits! writes for the other five enums is
\* concat!($prefix, "_001")
WalletError_code(err) ==
    CASE err.cat = "Cryptographic" -> display_code(err)
      [] err.cat \in {"FileSystem", "UserInput", "Authentication", "Network", "Validation"}
            -> CodePrefix[err.cat] \o "_001"
      [] err.cat = "NotImplemented" -> "NOT_IMPLEMENTED"
      [] err.cat = "Io" -> "IO_ERROR"
      [] err.cat = "Json" -> "JSON_ERROR"

\* CommandResult::from_error
from_error(err) == [success |-> FALSE, code |-> WalletError_code(err)]

\* ================================================================ state
VARIABLES
    pc,         \* where the scenario stands: "start", "wallet", "stored", "loaded", "parsed"
    ctor,       \* the Wallet constructor called, its main argument and its result
    derived,    \* the last derive_address call on the constructed wallet
    stored,     \* the keystore at hand: its origin, the call that made it, its password
    change,     \* what was changed in the keystore after it was written
    dec,        \* the decrypt_wallet call: password and outcome
    retry,      \* a second decrypt_wallet call with the same arguments
    rederived,  \* the last derive_address call on the decrypted wallet
    parsed,     \* the Keystore::from_json call and its result
    file,       \* the JSON text of the keystore at hand
    fs,         \* the file system: directories and files
    io,         \* the last save_keystore or load_keystore call
    savers,     \* the save_keystore calls under way, each at its step
    residue,    \* what dropped values left in memory
    report,     \* the errors handed to CommandResult::from_error, and the results
    book,       \* an AddressBook
    asked       \* the last call on the book: its argument, its result, the book before

vars == <<pc, ctor, derived, stored, change, dec, retry, rederived, parsed, file, fs, io,
          savers, residue, report, book, asked>>

NoOutcome == Outcome(Err(NoError), <<>>, "unallocated", FALSE)

NoCall == [called |-> FALSE, password |-> <<>>, out |-> NoOutcome]

NoDerivation == [index |-> -1, res |-> Err(NoError)]

NoChange == [field |-> "none", pos |-> 0, to |-> <<>>]

NoParse == [called |-> FALSE, res |-> Err(NoError)]

NoIo == [op |-> "none", path |-> <<>>, res |-> Err(NoError), effects |-> <<>>,
         before |-> EmptyFs, count |-> 0]

NoSavers == <<>>

NoReport == [errors |-> <<>>, results |-> <<>>]

NoBookCall == [op |-> "none", arg |-> <<>>, res |-> <<>>, before |-> AddressBook_new("mainnet")]

\* nothing dropped yet; later the kind of value dropped last, and what its
\* buffers hold once they are freed
NoResidue ==
    [dropped |-> "none", mnemonic |-> <<>>, master_private_key |-> "None",
     entropy |-> "unallocated"]

Init ==
    /\ pc = "start"
    /\ ctor = [op |-> "none", arg |-> <<>>, res |-> Err(NoError)]
    /\ derived = NoDerivation
    /\ stored = [origin |-> "none", out |-> NoOutcome, password |-> <<>>]
    /\ change = NoChange
    /\ dec = NoCall
    /\ retry = NoCall
    /\ rederived = NoDerivation
    /\ parsed = NoParse
    /\ file = NoFileText
    /\ fs = EmptyFs
    /\ io = NoIo
    /\ savers = NoSavers
    /\ residue = NoResidue
    /\ report = NoReport
    /\ book = AddressBook_new("mainnet")
    /\ asked = NoBookCall

\* ------------------------------------------------------------- actions
CreateFromMnemonic ==
    /\ pc = "start"
    /\ \E m \in MnemonicInputs, n \in NetworkInputs, a \in AliasInputs :
          ctor' = [op |-> "from_mnemonic", arg |-> m, res |-> from_mnemonic(m, n, a)]
    /\ pc' = "wallet"
    /\ UNCHANGED <<derived, stored, change, dec, retry, rederived, parsed, file, fs, io,
                   savers, residue, report, book, asked>>

CreateFromPrivateKey ==
    /\ pc = "start"
    /\ \E k \in PrivateKeyInputs, n \in NetworkInputs, a \in AliasInputs :
          ctor' = [op |-> "from_private_key", arg |-> k, res |-> from_private_key(k, n, a)]
    /\ pc' = "wallet"
    /\ UNCHANGED <<derived, stored, change, dec, retry, rederived, parsed, file, fs, io,
                   savers, residue, report, book, asked>>

CreateGenerate ==
    /\ pc = "start"
    /\ \E wc \in WordCountInputs, fill \in EntropyFills, n \in NetworkInputs,
          a \in AliasInputs :
          /\ ctor' = [op |-> "generate", arg |-> <<wc>>, res |-> generate(wc, fill, n, a)]
          /\ residue' = [residue EXCEPT !.dropped = "entropy",
                                        !.entropy = generate_entropy_at_return(wc)]
    /\ pc' = "wallet"
    /\ UNCHANGED <<derived, stored, change, dec, retry, rederived, parsed, file, fs, io,
                   savers, report, book, asked>>

Derive ==
    /\ pc = "wallet"
    /\ ctor.res.ok
    /\ \E i \in IndexInputs :
          derived' = [index |-> i, res |-> derive_address(ctor.res.val, i)]
    /\ UNCHANGED <<pc, ctor, stored, change, dec, retry, rederived, parsed, file, fs, io,
                   savers, residue, report, book, asked>>

Encrypt ==
    /\ pc = "wallet"
    /\ ctor.res.ok
    /\ \E pw \in PasswordInputs, use_argon2 \in BOOLEAN, salt \in Salts, nonce \in Nonces :
          stored' = [origin |-> "encrypt_wallet",
                     out |-> encrypt_wallet(ctor.res.val, pw, use_argon2, salt, nonce),
                     password |-> pw]
    /\ pc' = "stored"
    /\ UNCHANGED <<ctor, derived, change, dec, retry, rederived, parsed, file, fs, io,
                   savers, residue, report, book, asked>>

Foreign ==
    /\ pc = "start"
    /\ \E plaintext \in ForeignPlaintexts, salt \in Salts, nonce \in ForeignNonces :
          stored' = [origin |-> "foreign",
                     out |-> Outcome(Ok(ForeignKeystore(plaintext, OTHER_ADDRESS, PASSWORD,
                                                        salt, nonce)),
                                     <<>>, "unallocated", FALSE),
                     password |-> PASSWORD]
    /\ pc' = "stored"
    /\ UNCHANGED <<ctor, derived, change, dec, retry, rederived, parsed, file, fs, io,
                   savers, residue, report, book, asked>>

Decrypt ==
    /\ pc = "stored"
    /\ stored.out.res.ok
    /\ \E pw \in PasswordInputs :
          dec' = [called |-> TRUE, password |-> pw,
                  out |-> decrypt_wallet(stored.out.res.val, pw)]
    /\ pc' = "loaded"
    /\ UNCHANGED <<ctor, derived, stored, change, retry, rederived, parsed, file, fs, io,
                   savers, residue, report, book, asked>>

DeriveRestored ==
    /\ pc = "loaded"
    /\ dec.out.res.ok
    /\ \E i \in IndexInputs :
          rederived' = [index |-> i, res |-> derive_address(dec.out.res.val, i)]
    /\ UNCHANGED <<pc, ctor, derived, stored, change, dec, retry, parsed, file, fs, io,
                   savers, residue, report, book, asked>>

\* the wallet goes out of scope
DropWallet ==
    /\ pc = "wallet"
    /\ ctor.res.ok
    /\ residue' = drop_wallet(ctor.res.val)
    /\ pc' = "dropped"
    /\ UNCHANGED <<ctor, derived, stored, change, dec, retry, rederived, parsed, file, fs, io,
                   savers, report, book, asked>>

ManagerCreateWallet ==
    /\ pc = "start"
    /\ \E wc \in WordCountInputs, fill \in EntropyFills, n \in NetworkInputs :
          /\ ctor' = [op |-> "create_wallet", arg |-> <<wc>>,
                      res |-> create_wallet(n, wc, fill)]
          /\ residue' = IF MnemonicService_generate(wc, fill).ok
                        THEN drop_secure_mnemonic(MnemonicService_generate(wc, fill).val)
                        ELSE residue
    /\ pc' = "wallet"
    /\ UNCHANGED <<derived, stored, change, dec, retry, rederived, parsed, file, fs, io,
                   savers, report, book, asked>>

ManagerImportFromMnemonic ==
    /\ pc = "start"
    /\ \E m \in MnemonicInputs, n \in NetworkInputs :
          /\ ctor' = [op |-> "import_from_mnemonic", arg |-> m,
                      res |-> import_from_mnemonic(n, m)]
          /\ residue' = IF MnemonicService_validate(m).ok
                        THEN drop_secure_mnemonic(MnemonicService_validate(m).val)
                        ELSE residue
    /\ pc' = "wallet"
    /\ UNCHANGED <<derived, stored, change, dec, retry, rederived, parsed, file, fs, io,
                   savers, report, book, asked>>

Next ==
    \/ CreateFromMnemonic
    \/ CreateFromPrivateKey
    \/ CreateGenerate
    \/ ManagerCreateWallet
    \/ ManagerImportFromMnemonic
    \/ Derive
    \/ Encrypt
    \/ Foreign
    \/ Decrypt
    \/ DeriveRestored
    \/ DropWallet

Spec == Init /\ [][Next]_vars

\* ------------------------------------------ a keystore file and its reading
\* The keystores encrypt_wallet writes for a wallet of the test mnemonic,
\* as JSON text
InitKeystore ==
    /\ pc = "stored"
    /\ \E a \in AliasInputs :
          ctor = [op |-> "from_mnemonic", arg |-> TEST_MNEMONIC,
                  res |-> from_mnemonic(TEST_MNEMONIC, "mainnet", a)]
    /\ \E use_argon2 \in BOOLEAN, salt \in Salts, nonce \in Nonces :
          stored = [origin |-> "encrypt_wallet",
                    out |-> encrypt_wallet(ctor.res.val, PASSWORD, use_argon2, salt, nonce),
                    password |-> PASSWORD]
    /\ file = to_json(stored.out.res.val).val
    /\ derived = NoDerivation
    /\ change = NoChange
    /\ dec = NoCall
    /\ retry = NoCall
    /\ rederived = NoDerivation
    /\ parsed = NoParse
    /\ fs = EmptyFs
    /\ io = NoIo
    /\ savers = NoSavers
    /\ residue = NoResidue
    /\ report = NoReport
    /\ book = AddressBook_new("mainnet")
    /\ asked = NoBookCall

\* one character of the hex text of the ciphertext or of the mac is replaced
ChangeHexChar ==
    /\ pc = "stored"
    /\ change = NoChange
    /\ \E field \in {"crypto.ciphertext", "crypto.mac"} :
       \E pos \in 1..Len(file.members[field]) :
       \E to \in Replacements(file.members[field][pos]) :
          /\ file' = [file EXCEPT !.members[field][pos] = to]
          /\ change' = [field |-> field, pos |-> pos, to |-> <<to>>]
    /\ UNCHANGED <<pc, ctor, derived, stored, dec, retry, rederived, parsed, fs, io, savers, residue,
                   report, book, asked>>

\* one member of the text is given another value
SetField ==
    /\ pc = "stored"
    /\ change = NoChange
    /\ \E e \in FieldEdits :
          /\ e[1] \in DOMAIN file.members
          /\ file' = [file EXCEPT !.members[e[1]] = e[2]]
          /\ change' = [field |-> e[1], pos |-> 0, to |-> <<e[2]>>]
    /\ UNCHANGED <<pc, ctor, derived, stored, dec, retry, rederived, parsed, fs, io, savers, residue,
                   report, book, asked>>

\* the text loses a member, or its end
DamageText ==
    /\ pc = "stored"
    /\ change = NoChange
    /\ \/ \E k \in DroppedMembers :
             /\ file' = [file EXCEPT !.members = [j \in DOMAIN file.members \ {k} |->
                                                     file.members[j]]]
             /\ change' = [field |-> k, pos |-> -1, to |-> <<>>]
       \/ /\ file' = [file EXCEPT !.wellformed = FALSE]
          /\ change' = [field |-> "truncated", pos |-> -1, to |-> <<>>]
    /\ UNCHANGED <<pc, ctor, derived, stored, dec, retry, rederived, parsed, fs, io, savers, residue,
                   report, book, asked>>

\* Keystore::from_json on the text
ParseJson ==
    /\ pc = "stored"
    /\ parsed' = [called |-> TRUE, res |-> from_json(file)]
    /\ pc' = "parsed"
    /\ UNCHANGED <<ctor, derived, stored, change, dec, retry, rederived, file, fs, io,
                   savers, residue, report, book, asked>>

\* decrypt_wallet on the Keystore value serde reads from the text
DecryptFile ==
    /\ pc = "parsed"
    /\ serde_json_from_str(file).ok
    /\ \E pw \in PasswordInputs :
          dec' = [called |-> TRUE, password |-> pw,
                  out |-> decrypt_wallet(serde_json_from_str(file).val, pw)]
    /\ pc' = "loaded"
    /\ UNCHANGED <<ctor, derived, stored, change, retry, rederived, parsed, file, fs, io,
                   savers, residue, report, book, asked>>

\* decrypt_wallet once more, same keystore, same password
DecryptAgain ==
    /\ pc = "loaded"
    /\ serde_json_from_str(file).ok
    /\ retry' = [called |-> TRUE, password |-> dec.password,
                 out |-> decrypt_wallet(serde_json_from_str(file).val, dec.password)]
    /\ pc' = "done"
    /\ UNCHANGED <<ctor, derived, stored, change, dec, rederived, parsed, file, fs, io,
                   savers, residue, report, book, asked>>

NextKeystore ==
    \/ ChangeHexChar
    \/ SetField
    \/ DamageText
    \/ ParseJson
    \/ DecryptFile
    \/ DecryptAgain

SpecKeystore == InitKeystore /\ [][NextKeystore]_vars

\* ------------------------------------------------ keystores on the disk
\* calls of save_keystore and load_keystore in one behaviour
MaxCalls == 2

\* a keystore of encrypt_wallet at hand, and the working directory empty or used
InitFs ==
    /\ pc = "stored"
    /\ ctor = [op |-> "from_mnemonic", arg |-> TEST_MNEMONIC,
               res |-> from_mnemonic(TEST_MNEMONIC, "mainnet", None)]
    /\ \E use_argon2 \in BOOLEAN, salt \in Salts, nonce \in Nonces :
          stored = [origin |-> "encrypt_wallet",
                    out |-> encrypt_wallet(ctor.res.val, PASSWORD, use_argon2, salt, nonce),
                    password |-> PASSWORD]
    /\ file = to_json(stored.out.res.val).val
    /\ fs \in {EmptyFs, UsedFs(stored.out.res.val)}
    /\ io = NoIo
    /\ savers = NoSavers
    /\ residue = NoResidue
    /\ report = NoReport
    /\ book = AddressBook_new("mainnet")
    /\ asked = NoBookCall
    /\ derived = NoDerivation
    /\ change = NoChange
    /\ dec = NoCall
    /\ retry = NoCall
    /\ rederived = NoDerivation
    /\ parsed = NoParse

SaveKeystore ==
    /\ io.count < MaxCalls
    /\ \E path \in PathInputs :
          LET out == save_keystore(fs, stored.out.res.val, path)
          IN  /\ fs' = out.fs
              /\ io' = [op |-> "save_keystore", path |-> path, res |-> out.res,
                        effects |-> out.effects, before |-> fs, count |-> io.count + 1]
    /\ UNCHANGED <<pc, ctor, derived, stored, change, dec, retry, rederived, parsed, file, savers, residue,
                   report, book, asked>>

LoadKeystore ==
    /\ io.count < MaxCalls
    /\ \E path \in PathInputs :
          LET out == load_keystore(fs, path)
          IN  /\ fs' = out.fs
              /\ io' = [op |-> "load_keystore", path |-> path, res |-> out.res,
                        effects |-> out.effects, before |-> fs, count |-> io.count + 1]
    /\ UNCHANGED <<pc, ctor, derived, stored, change, dec, retry, rederived, parsed, file, savers, residue,
                   report, book, asked>>

NextFs ==
    \/ SaveKeystore
    \/ LoadKeystore

SpecFs == InitFs /\ [][NextFs]_vars

\* ------------------------------------------- save_keystore, step by step
\* The processes that call save_keystore.  Each call goes through the file
\* system calls of the code one at a time, so that other processes, and a
\* reader, see the states in between.
Savers == {"first", "second"}

\* the paths saved to: a new file in a directory, the keystore already there,
\* a path through "..", and a file in directories yet to be made
SavePaths ==
    {PATH_OLD,
     \* wallets/k.json
     <<"w", "a", "l", "l", "e", "t", "s", "/", "k", ".", "j", "s", "o", "n">>,
     \* wallets/../k.json
     <<"w", "a", "l", "l", "e", "t", "s", "/", ".", ".", "/", "k", ".", "j", "s", "o", "n">>,
     \* new/deep/k.json
     <<"n", "e", "w", "/", "d", "e", "e", "p", "/", "k", ".", "j", "s", "o", "n">>}

\* the JSON text each saver writes: to_json of a keystore of its own
SaverText ==
    [who \in Savers |->
        to_json(encrypt_wallet(from_mnemonic(TEST_MNEMONIC, "mainnet", None).val, PASSWORD,
                               who = "first", Rep(17, SALT_LENGTH),
                               Rep(33, NONCE_LENGTH)).res.val).val]

\* a saver before its call; `made` will hold the directories its call made
\* and `before` what was at its path when it was called
IdleSaver ==
    [pc |-> "idle", path |-> <<>>, res |-> Err(NoError), made |-> {}, before |-> {}]

\* the files at the path, none or one
FilesAt(fsys, path) == {f \in fsys.files : f.at = components(path)}

\* the file at comps, with the content and the mode given
PutFile(fsys, comps, content, len, mode) ==
    [fsys EXCEPT !.files = {f \in @ : f.at # comps}
                           \cup {[at |-> comps, content |-> content, len |-> len,
                                  mode |-> mode]}]

InitSave ==
    /\ pc = "stored"
    /\ ctor = [op |-> "from_mnemonic", arg |-> TEST_MNEMONIC,
               res |-> from_mnemonic(TEST_MNEMONIC, "mainnet", None)]
    /\ stored = [origin |-> "encrypt_wallet",
                 out |-> encrypt_wallet(ctor.res.val, PASSWORD, FALSE, Rep(17, SALT_LENGTH),
                                        Rep(33, NONCE_LENGTH)),
                 password |-> PASSWORD]
    /\ file = to_json(stored.out.res.val).val
    /\ fs \in {EmptyFs, UsedFs(stored.out.res.val)}
    /\ savers = [who \in Savers |-> IdleSaver]
    /\ io = NoIo
    /\ derived = NoDerivation
    /\ change = NoChange
    /\ dec = NoCall
    /\ retry = NoCall
    /\ rederived = NoDerivation
    /\ parsed = NoParse
    /\ residue = NoResidue
    /\ report = NoReport
    /\ book = AddressBook_new("mainnet")
    /\ asked = NoBookCall

\* save_keystore is called: validate_file_path
SaveCall(who) ==
    /\ savers[who].pc = "idle"
    /\ \E path \in SavePaths :
          savers' = [savers EXCEPT ![who] =
              IF validate_file_path(path).ok
              THEN [@ EXCEPT !.pc = "create_dir_all", !.path = path,
                             !.before = FilesAt(fs, path)]
              ELSE [@ EXCEPT !.pc = "returned", !.path = path,
                             !.before = FilesAt(fs, path),
                             !.res = Err(validate_file_path(path).err)]]
    /\ UNCHANGED <<pc, ctor, derived, stored, change, dec, retry, rederived, parsed, file,
                   fs, io, residue, report, book, asked>>

\* tokio::fs::create_dir_all(parent)
SaveCreateDirs(who) ==
    /\ savers[who].pc = "create_dir_all"
    /\ LET made == create_dir_all(fs, parent(savers[who].path))
       IN  /\ fs' = made.fs
           /\ savers' = [savers EXCEPT ![who] =
                  IF made.ok
                  THEN [@ EXCEPT !.pc = "exists", !.made = made.fs.dirs \ fs.dirs]
                  ELSE [@ EXCEPT !.pc = "returned", !.made = made.fs.dirs \ fs.dirs,
                                 !.res = Err(FileSystemError("DirectoryNotAccessible"))]]
    /\ UNCHANGED <<pc, ctor, derived, stored, change, dec, retry, rederived, parsed, file,
                   io, residue, report, book, asked>>

\* path.exists(), and to_json when nothing is there
SaveCheckExists(who) ==
    /\ savers[who].pc = "exists"
    /\ savers' = [savers EXCEPT ![who] =
           IF exists(fs, savers[who].path)
           THEN [@ EXCEPT !.pc = "returned", !.res = Err(FileSystemError("FileExists"))]
           ELSE [@ EXCEPT !.pc = "open"]]
    /\ UNCHANGED <<pc, ctor, derived, stored, change, dec, retry, rederived, parsed, file,
                   fs, io, residue, report, book, asked>>

\* tokio::fs::write, its first half: the file is created, or truncated when
\* it is there by now, and is empty
SaveOpen(who) ==
    /\ savers[who].pc = "open"
    /\ LET comps == components(savers[who].path)
       IN  IF IsDir(fs, comps)
           THEN /\ savers' = [savers EXCEPT ![who] =
                       [@ EXCEPT !.pc = "returned",
                                 !.res = Err(FileSystemError("PermissionDenied"))]]
                /\ fs' = fs
           ELSE /\ savers' = [savers EXCEPT ![who] = [@ EXCEPT !.pc = "write_all"]]
                /\ fs' = PutFile(fs, comps, [wellformed |-> FALSE, members |-> <<>>], 0,
                                 IF IsFile(fs, comps) THEN FileAt(fs, comps).mode
                                 ELSE CREATED_FILE_MODE)
    /\ UNCHANGED <<pc, ctor, derived, stored, change, dec, retry, rederived, parsed, file,
                   io, residue, report, book, asked>>

\* tokio::fs::write, its second half: all of the text is written from the
\* start of the file, or the device fails after a part of it and the call
\* returns the error.  Bytes that another handle wrote beyond the end of the
\* text since the file was opened stay where they are: what the file holds
\* then is the text followed by the end of the other one, which is no JSON.
SaveWrite(who) ==
    /\ savers[who].pc = "write_all"
    /\ LET comps == components(savers[who].path)
           text == SaverText[who]
           held == FileAt(fs, comps).len
       IN  \/ /\ fs' = IF held > json_len(text)
                       THEN PutFile(fs, comps, [text EXCEPT !.wellformed = FALSE], held,
                                    FileAt(fs, comps).mode)
                       ELSE PutFile(fs, comps, text, json_len(text), FileAt(fs, comps).mode)
              /\ savers' = [savers EXCEPT ![who] = [@ EXCEPT !.pc = "set_permissions"]]
           \/ /\ fs' = PutFile(fs, comps, [text EXCEPT !.wellformed = FALSE],
                               IF held > json_len(text) \div 2 THEN held
                               ELSE json_len(text) \div 2, FileAt(fs, comps).mode)
              /\ savers' = [savers EXCEPT ![who] =
                     [@ EXCEPT !.pc = "returned",
                               !.res = Err(FileSystemError("PermissionDenied"))]]
    /\ UNCHANGED <<pc, ctor, derived, stored, change, dec, retry, rederived, parsed, file,
                   io, residue, report, book, asked>>

\* std::fs::set_permissions(path, 0o600), and the return
SaveSetPermissions(who) ==
    /\ savers[who].pc = "set_permissions"
    /\ LET f == FileAt(fs, components(savers[who].path))
       IN  fs' = PutFile(fs, f.at, f.content, f.len, KEYSTORE_FILE_PERMISSIONS)
    /\ savers' = [savers EXCEPT ![who] = [@ EXCEPT !.pc = "returned", !.res = Ok(<<>>)]]
    /\ UNCHANGED <<pc, ctor, derived, stored, change, dec, retry, rederived, parsed, file,
                   io, residue, report, book, asked>>

\* the process is killed, or the future dropped, between two steps
SaveAbandoned(who) ==
    /\ savers[who].pc \in {"create_dir_all", "exists", "open", "write_all", "set_permissions"}
    /\ savers' = [savers EXCEPT ![who] = [@ EXCEPT !.pc = "abandoned"]]
    /\ UNCHANGED <<pc, ctor, derived, stored, change, dec, retry, rederived, parsed, file,
                   fs, io, residue, report, book, asked>>

NextSave ==
    \/ \E who \in Savers : SaveCall(who)
    \/ \E who \in Savers : SaveCreateDirs(who)
    \/ \E who \in Savers : SaveCheckExists(who)
    \/ \E who \in Savers : SaveOpen(who)
    \/ \E who \in Savers : SaveWrite(who)
    \/ \E who \in Savers : SaveSetPermissions(who)
    \/ \E who \in Savers : SaveAbandoned(who)

SpecSave == InitSave /\ [][NextSave]_vars

\* ------------------------------------------------ the wallet manager
\* passwords given to save_wallet and load_wallet: a strong one, the one of
\* tests/integration/test_wallet_creation.rs, a short one and the empty one
ManagerPasswords ==
    {PASSWORD,
     \* test_password_123
     <<"t", "e", "s", "t", "_", "p", "a", "s", "s", "w", "o", "r", "d", "_", "1", "2", "3">>,
     \* Ab1!
     <<"A", "b", "1", "!">>,
     <<>>}

\* the configurations of a manager: WalletConfig::default() and the
\* test_config() of wallet_manager.rs, for either network
WalletConfigs ==
    {WalletConfig(n, k[1], k[2], k[3]) :
        n \in NetworkInputs,
        k \in {<<DEFAULT_ARGON2_ITERATIONS, DEFAULT_ARGON2_MEMORY, DEFAULT_ARGON2_PARALLELISM>>,
               <<1, 1024, 1>>}}

\* a keystore of the test wallet written under PASSWORD with the Argon2id
\* parameters for low memory, which are not the ones encrypt_wallet records
LowMemoryKeystore ==
    LET wallet == from_mnemonic(TEST_MNEMONIC, "mainnet", None).val
        cfg == get_argon2_config_low_memory
        salt == Rep(17, SALT_LENGTH)
        nonce == Rep(33, NONCE_LENGTH)
        key == derive_key_argon2(as_bytes(PASSWORD), salt, cfg.memory, cfg.iterations,
                                 cfg.parallelism).val
        ciphertext == Aes256GcmEncrypt(key, nonce, serialize_wallet(wallet))
    IN  Keystore_new(None, wallet.address, "mainnet", ciphertext, nonce,
                     compute_mac(key, ciphertext, nonce),
                     KdfParamsArgon2(KEY_LENGTH, cfg.memory, cfg.iterations,
                                     cfg.parallelism, hex_encode(salt)))

\* a manager of either network, and the working directory empty or used
InitManager ==
    /\ pc = "start"
    /\ ctor = [op |-> "none", arg |-> <<>>, res |-> Err(NoError)]
    /\ stored = [origin |-> "none", out |-> NoOutcome, password |-> <<>>]
    /\ file = NoFileText
    /\ fs \in {EmptyFs, UsedFs(LowMemoryKeystore)}
    /\ io = NoIo
    /\ savers = NoSavers
    /\ residue = NoResidue
    /\ report = NoReport
    /\ book = AddressBook_new("mainnet")
    /\ asked = NoBookCall
    /\ derived = NoDerivation
    /\ change = NoChange
    /\ dec = NoCall
    /\ retry = NoCall
    /\ rederived = NoDerivation
    /\ parsed = NoParse

ManagerSaveWallet ==
    /\ pc = "wallet"
    /\ ctor.res.ok
    /\ \E path \in PathInputs, pw \in ManagerPasswords, salt \in Salts, nonce \in Nonces,
          config \in WalletConfigs :
          LET out == save_wallet(config, fs, ctor.res.val, path, pw, salt, nonce)
          IN  /\ config.network = ctor.res.val.network
              /\ fs' = out.fs
              /\ io' = [op |-> "save_wallet", path |-> path, res |-> out.res,
                        effects |-> out.effects, before |-> fs, count |-> io.count + 1]
              /\ stored' = [origin |-> "save_wallet", out |-> NoOutcome, password |-> pw,
                            config |-> config]
    /\ pc' = "saved"
    /\ UNCHANGED <<ctor, derived, change, dec, retry, rederived, parsed, file, savers,
                   residue, report, book, asked>>

ManagerLoadWallet ==
    /\ pc = "saved"
    /\ \E path \in {io.path, PATH_OLD}, pw \in ManagerPasswords \cup {WRONG_PASSWORD} :
          dec' = [called |-> TRUE, password |-> pw, path |-> path,
                  out |-> load_wallet(stored.config, fs, path, pw)]
    /\ pc' = "loaded"
    /\ UNCHANGED <<ctor, derived, stored, change, retry, rederived, parsed, file, fs, io,
                   savers, residue, report, book, asked>>

NextManager ==
    \/ ManagerCreateWallet
    \/ ManagerImportFromMnemonic
    \/ ManagerSaveWallet
    \/ ManagerLoadWallet

SpecManager == InitManager /\ [][NextManager]_vars

\* ------------------------------------------------ the wallet directory
WALLET_DIR == <<"w", "a", "l", "l", "e", "t", "s">>

\* The files another program may leave in the wallet directory, by name: a
\* keystore, a keystore whose created_at is "2024", a text that is no JSON, a
\* JSON object without crypto.mac, a keystore under a name that does not end
\* in .json, and one under the name .json
DirectoryFiles ==
    LET text == SaverText["first"]
        name(n) == components(WALLET_DIR) \o <<n>>
        json == <<".", "j", "s", "o", "n">>
    IN  {[at |-> name(<<"g", "o", "o", "d">> \o json), content |-> text,
          len |-> json_len(text), mode |-> CREATED_FILE_MODE],
         [at |-> name(<<"s", "h", "o", "r", "t">> \o json),
          content |-> [text EXCEPT !.members["metadata.created_at"] = <<"2", "0", "2", "4">>],
          len |-> json_len(text), mode |-> CREATED_FILE_MODE],
         [at |-> name(<<"c", "o", "r", "r", "u", "p", "t">> \o json), content |-> NoFileText,
          len |-> 1, mode |-> CREATED_FILE_MODE],
         [at |-> name(<<"f", "o", "r", "e", "i", "g", "n">> \o json),
          content |-> [text EXCEPT !.members =
                          [k \in DOMAIN text.members \ {"crypto.mac"} |-> text.members[k]]],
          len |-> json_len(text), mode |-> CREATED_FILE_MODE],
         [at |-> name(<<"n", "o", "t", "e", "s", ".", "t", "x", "t">>), content |-> text,
          len |-> json_len(text), mode |-> CREATED_FILE_MODE],
         [at |-> name(json), content |-> text,
          len |-> json_len(text), mode |-> CREATED_FILE_MODE]}

\* another program writes a file into the wallet directory
PlaceFile ==
    /\ pc = "stored"
    /\ \E f \in DirectoryFiles :
          /\ ~IsFile(fs, f.at)
          /\ fs' = [create_dir_all(fs, components(WALLET_DIR)).fs
                       EXCEPT !.files = @ \cup {f}]
    /\ UNCHANGED <<pc, ctor, derived, stored, change, dec, retry, rederived, parsed, file, io,
                   savers, residue, report, book, asked>>

ExecuteList ==
    /\ pc = "stored"
    /\ \E wallet_dir \in {WALLET_DIR, <<"n", "e", "w">>, PATH_OLD}, output \in {"Table", "Json"} :
          LET out == execute_list(fs, wallet_dir, output)
          IN  /\ fs' = out.fs
              /\ io' = [op |-> "execute_list", path |-> wallet_dir, res |-> out.res,
                        effects |-> <<output>>, before |-> fs, count |-> io.count + 1]
    /\ pc' = "listed"
    /\ UNCHANGED <<ctor, derived, stored, change, dec, retry, rederived, parsed, file,
                   savers, residue, report, book, asked>>

NextList ==
    \/ PlaceFile
    \/ ExecuteList

SpecList == InitFs /\ [][NextList]_vars

\* ------------------------------------------------ errors at the boundary
\* every WalletError value, up to the fields that carry details
WalletErrors ==
    UNION {{Error(cat, ErrorVariants[cat][i], "") : i \in 1..Len(ErrorVariants[cat])} :
              cat \in DOMAIN ErrorVariants}
      \cup {Error(cat, cat, "") : cat \in {"NotImplemented", "Io", "Json"}}

\* two errors are about to be reported
InitErrors ==
    /\ pc = "start"
    /\ ctor = [op |-> "none", arg |-> <<>>, res |-> Err(NoError)]
    /\ stored = [origin |-> "none", out |-> NoOutcome, password |-> <<>>]
    /\ file = NoFileText
    /\ fs = EmptyFs
    /\ io = NoIo
    /\ savers = NoSavers
    /\ residue = NoResidue
    /\ \E first \in WalletErrors, second \in WalletErrors :
          report = [errors |-> <<first, second>>, results |-> <<>>]
    /\ book = AddressBook_new("mainnet")
    /\ asked = NoBookCall
    /\ derived = NoDerivation
    /\ change = NoChange
    /\ dec = NoCall
    /\ retry = NoCall
    /\ rederived = NoDerivation
    /\ parsed = NoParse

FromError ==
    /\ Len(report.results) < Len(report.errors)
    /\ report' = [report EXCEPT !.results =
                     Append(@, from_error(report.errors[Len(report.results) + 1]))]
    /\ UNCHANGED <<pc, ctor, derived, stored, change, dec, retry, rederived, parsed, file, fs,
                   io, savers, residue, book, asked>>

SpecErrors == InitErrors /\ [][FromError]_vars

\* ================================================================ claims
\* the wallet the constructor returned, and the one decrypt_wallet returned
Built == ctor.res.val

Restored == dec.out.res.val

\* decrypt_wallet was called on a keystore that encrypt_wallet made from Built
RoundTripped == pc = "loaded" /\ stored.origin = "encrypt_wallet"

\* C1: for every wallet W the constructors produce and every password P,
\* decrypt_wallet(encrypt_wallet(W, P), P) succeeds and returns a wallet with
\* W's address, mnemonic, network and alias.
C1_RoundTrip ==
    (RoundTripped /\ dec.password = stored.password)
        => /\ dec.out.res.ok
           /\ Restored.address = Built.address
           /\ Restored.mnemonic = Built.mnemonic
           /\ Restored.network = Built.network
           /\ Restored.alias = Built.alias

\* C1, a state where the case happens: a round trip with the same password
\* that returned the wallet
C1_Reached ==
    RoundTripped /\ dec.password = stored.password /\ dec.out.res.ok

\* C2: for every wallet W and passwords P' # P, decrypt_wallet(encrypt_wallet(W, P), P')
\* returns an error of kind DecryptionFailed and never a wallet.
C2_WrongPassword ==
    (RoundTripped /\ dec.password # stored.password)
        => ~dec.out.res.ok /\ dec.out.res.err.kind = "DecryptionFailed"

\* C5: in every wallet returned by from_mnemonic, generate or a successful
\* decrypt_wallet, a wallet with a mnemonic has the address that
\* derive_address(0) returns.
PrimaryIsIndexZero(w) ==
    has_mnemonic(w) => /\ derive_address(w, 0).ok
                       /\ derive_address(w, 0).val.address = w.address

C5_PrimaryAddress ==
    /\ (ctor.op \in {"from_mnemonic", "generate"} /\ ctor.res.ok) => PrimaryIsIndexZero(Built)
    /\ (dec.called /\ dec.out.res.ok) => PrimaryIsIndexZero(Restored)

\* C6: the private key string, once an optional 0x is stripped
KeyString == strip_0x(ctor.arg)

IsHex64 ==
    Len(KeyString) = 64 /\ \A i \in 1..64 : is_ascii_hexdigit(KeyString[i])

\* the 64 digits name a scalar of secp256k1: not zero, below the group order
ScalarInRange ==
    /\ \E i \in 1..64 : KeyString[i] # "0"
    /\ BytesLess(hex_decode(KeyString).val, SECP256K1_ORDER)

\* derive_address on the wallet built from a private key fails with a typed
\* error: for every index, and in the call the scenario made
KeyWalletDerivesNothing ==
    /\ \A i \in IndexInputs :
          /\ ~derive_address(Built, i).ok
          /\ derive_address(Built, i).err.cat # "panic"
    /\ derived.index >= 0 => ~derived.res.ok /\ derived.res.err.cat = "Cryptographic"

\* C6 (as claimed): from_private_key fails with InvalidPrivateKey on every input
\* that is not exactly 64 hex characters after an optional 0x; on exactly 64
\* hex characters it succeeds with has_mnemonic() false, and derive_address
\* on that wallet returns a typed error for every index.
C6_AsClaimed ==
    ctor.op = "from_private_key"
        => /\ ~IsHex64 => ~ctor.res.ok /\ ctor.res.err.kind = "InvalidPrivateKey"
           /\ IsHex64 => ctor.res.ok /\ ~has_mnemonic(Built) /\ KeyWalletDerivesNothing

\* C6 (amended): from_private_key fails with InvalidPrivateKey on every input
\* that is not exactly 64 hex characters after an optional 0x, and on 64 hex
\* characters that name zero or a number not below the secp256k1 group order;
\* on 64 hex characters naming a scalar in 1..n-1 it succeeds with
\* has_mnemonic() false, and derive_address on that wallet returns a typed
\* error for every index.
C6_PrivateKey ==
    ctor.op = "from_private_key"
        => /\ (~IsHex64 \/ ~ScalarInRange)
                => ~ctor.res.ok /\ ctor.res.err.kind = "InvalidPrivateKey"
           /\ (IsHex64 /\ ScalarInRange)
                => ctor.res.ok /\ ~has_mnemonic(Built) /\ KeyWalletDerivesNothing

\* C6, a state where the case happens: a wallet built from a private key and
\* derive_address called on it
C6_Reached ==
    ctor.op = "from_private_key" /\ ctor.res.ok /\ derived.index >= 0

\* C7: for a wallet with a mnemonic derive_address(i) returns index i and the
\* wallet's derivation_path followed by "/" and i; the wallets the
\* constructors build derive at every index; and the wallet recovered by an
\* encrypt/decrypt round trip derives, for the same i, the same address,
\* index and path as the wallet that was encrypted.
DerivationOf(w, d) ==
    (d.index >= 0 /\ d.res.ok)
        => /\ has_mnemonic(w)
           /\ d.res.val.index = d.index
           /\ d.res.val.derivation_path = w.derivation_path \o <<"/">> \o to_decimal(d.index)

C7_Derivation ==
    /\ DerivationOf(Built, derived)
    /\ (derived.index >= 0 /\ has_mnemonic(Built)) => derived.res.ok
    /\ (dec.called /\ dec.out.res.ok) => DerivationOf(Restored, rederived)
    /\ (RoundTripped /\ rederived.index >= 0 /\ has_mnemonic(Built))
          => /\ rederived.res.ok
             /\ rederived.index = derived.index => rederived.res = derived.res

\* C7, a state where the case happens: the same index derived on the wallet
\* and on the wallet a round trip recovered
C7_Reached ==
    /\ RoundTripped /\ has_mnemonic(Built)
    /\ derived.index = 10 * MaxIndex + 1 /\ rederived.index = derived.index
    /\ rederived.res.ok

\* ------------------------------------------------ claims on keystore files
\* the Keystore value serde reads from the text at hand
FileKeystore == serde_json_from_str(file).val

\* the text encrypt_wallet's keystore was written as, before any change
WrittenMembers == to_json(stored.out.res.val).val.members

\* one character of the hex text of the ciphertext or of the mac was replaced,
\* and decrypt_wallet was called with the password of the encryption
HexCharChanged ==
    /\ change.field \in {"crypto.ciphertext", "crypto.mac"}
    /\ dec.called /\ dec.password = stored.password

\* the replaced character differs from the original by its case only, so the
\* field decodes to the bytes it decoded to before
SameBytes ==
    /\ hex_decode(file.members[change.field]).ok
    /\ hex_decode(file.members[change.field]).val
         = hex_decode(WrittenMembers[change.field]).val

\* the plaintext of a returned wallet is the one that was encrypted
SamePlaintext(out) ==
    out.res.ok => serialize_wallet(out.res.val) = serialize_wallet(Built)

\* C3 (as claimed): changing any single byte of the ciphertext field or of the
\* mac field of a persisted keystore makes decryption with the correct
\* password fail, with the same outcome on every attempt; decryption never
\* succeeds returning a plaintext different from the one that was encrypted.
C3_AsClaimed ==
    HexCharChanged
        => /\ ~dec.out.res.ok
           /\ retry.called => retry.out = dec.out
           /\ SamePlaintext(dec.out)

\* C3 (amended): changing a single character of the hex text of the
\* ciphertext or of the mac so that the field decodes to other bytes, or does
\* not decode, makes decryption with the correct password fail, with the same
\* outcome on every attempt; a change of the case of a hex letter leaves the
\* bytes as they were and decryption returns the wallet; decryption never
\* succeeds returning a plaintext different from the one that was encrypted.
C3_TamperDetection ==
    HexCharChanged
        => /\ ~SameBytes => ~dec.out.res.ok
           /\ SameBytes => dec.out.res.ok
           /\ retry.called => retry.out = dec.out
           /\ SamePlaintext(dec.out)

\* C3, a state where the case happens: a character of the second half of the
\* mac replaced by another digit, decryption tried twice
C3_Reached ==
    /\ HexCharChanged /\ change.field = "crypto.mac" /\ change.pos > MAC_LENGTH
    /\ change.to # <<"g">> /\ ~SameBytes
    /\ retry.called /\ ~retry.out.res.ok

\* C4: after every successful decrypt_wallet the keystore's clear-text
\* metadata.address equals the address of the recovered wallet; a keystore
\* whose metadata.address was changed after encryption is not accepted.
C4_MetadataAddress ==
    (dec.called /\ dec.out.res.ok) => FileKeystore.metadata.address = Restored.address

\* C8: every failure of Keystore::from_json is reported as
\* ValidationError::InvalidKeystoreSchema and as no other error variant.
C8_SchemaErrorOnly ==
    (parsed.called /\ ~parsed.res.ok)
        => parsed.res.err.cat = "Validation" /\ parsed.res.err.kind = "InvalidKeystoreSchema"

\* C9: the text names another cipher, or a KDF parameter of its variant is zero
ZeroKdfField(kp) ==
    IF kp.variant = "Argon2" THEN kp.memory = 0 \/ kp.time = 0 \/ kp.parallelism = 0
    ELSE kp.c = 0

BadCipherOrZeroKdf ==
    /\ serde_json_from_str(file).ok
    /\ \/ FileKeystore.crypto.cipher # "aes-256-gcm"
       \/ ZeroKdfField(FileKeystore.crypto.kdfparams)

\* the call ended in an error without a KDF, HMAC or AEAD step
RejectedBeforeCrypto(call) ==
    call.called
        => /\ ~call.out.res.ok
           /\ \A i \in 1..Len(call.out.steps) : call.out.steps[i] \notin {"kdf", "hmac", "aead"}
           /\ call.out.key = "unallocated"

\* C9: a keystore whose cipher is not "aes-256-gcm", or whose KDF parameters
\* contain a zero field, is rejected by from_json and by decrypt_wallet before
\* any KDF, HMAC or AEAD operation is started.
C9_RejectedBeforeCrypto ==
    BadCipherOrZeroKdf
        => /\ parsed.called => ~parsed.res.ok /\ parsed.res.err.kind = "InvalidKeystoreSchema"
           /\ RejectedBeforeCrypto(dec)
           /\ RejectedBeforeCrypto(retry)

\* C9, a state where the case happens: a zero KDF parameter, from_json and
\* decrypt_wallet both called
C9_Reached ==
    /\ BadCipherOrZeroKdf /\ FileKeystore.crypto.cipher = "aes-256-gcm"
    /\ parsed.called /\ dec.called

\* ------------------------------------------------ claims on the file system
\* the path has a part, between separators, that is ".."
HasParentDirPart(path) ==
    \E i \in 1..Len(path) - 1 :
        /\ path[i] = "." /\ path[i + 1] = "."
        /\ (i = 1 \/ path[i - 1] = "/")
        /\ (i + 1 = Len(path) \/ path[i + 2] = "/")

\* C10: save_keystore and load_keystore reject any path containing a
\* parent-directory ('..') component with PathTraversal before any directory
\* is created, any file is written, and any file is read.
C10_PathTraversal ==
    (io.op # "none" /\ HasParentDirPart(io.path))
        => /\ ~io.res.ok
           /\ io.res.err.kind = "PathTraversal"
           /\ io.effects = <<>>
           /\ fs = io.before

\* C10, a state where the case happens: a save to a path with ".." inside,
\* and one where a load of such a path follows a save that wrote a file
C10_Reached ==
    /\ io.op # "none" /\ HasParentDirPart(io.path)
    /\ io.path[1] # "." /\ fs.files # {} /\ io.count = MaxCalls

\* ------------------------------------------------ claims on saving
\* the saver is the only process that has called save_keystore
Alone(who) == \A other \in Savers \ {who} : savers[other].pc = "idle"

\* C11: when a file already exists at the destination path and no other
\* process is acting on it, save_keystore returns FileExists and leaves the
\* existing file's contents unchanged: at every step of the call the file is
\* the one that was there, and the call never gets to open or write it.
C11_FileExists ==
    \A who \in Savers :
        (savers[who].pc # "idle" /\ savers[who].before # {} /\ Alone(who))
            => /\ FilesAt(fs, savers[who].path) = savers[who].before
               /\ savers[who].pc \in {"create_dir_all", "exists", "returned", "abandoned"}
               /\ savers[who].pc = "returned"
                     => ~savers[who].res.ok /\ savers[who].res.err.kind = "FileExists"

\* C11, a state where the case happens: a lone save to the path of the
\* keystore that is there has returned
C11_Reached ==
    \E who \in Savers :
        /\ Alone(who) /\ savers[who].before # {} /\ savers[who].pc = "returned"
        /\ savers[who].path = PATH_OLD

\* C12: saving a keystore is all-or-nothing at the destination path: in every
\* state reachable during save_keystore, including when it fails or is
\* abandoned between steps, a reader of the path (load_keystore) sees either
\* no file or the complete keystore, never a partially written one; and a
\* save that returns an error leaves no keystore file behind.
C12_AllOrNothing ==
    \A who \in Savers :
        (savers[who].pc # "idle" /\ savers[who].before = {} /\ Alone(who))
            => /\ \/ load_keystore(fs, savers[who].path).res.ok
                  \/ load_keystore(fs, savers[who].path).res.err.kind
                        \in {"FileNotFound", "PathTraversal"}
               /\ (savers[who].pc = "returned" /\ ~savers[who].res.ok)
                     => FilesAt(fs, savers[who].path) = {}

\* C13: whenever a keystore file written by save_keystore exists at its
\* destination path it has owner-only read/write permissions (0600), and any
\* parent directory that the save created has owner-only access (0700).
C13_Permissions ==
    \A who \in Savers :
        (savers[who].before = {} /\ Alone(who))
            => /\ \A f \in FilesAt(fs, savers[who].path) : f.mode = KEYSTORE_FILE_PERMISSIONS
               /\ \A d \in savers[who].made : fs.dirmode[d] = WALLET_DIR_PERMISSIONS

\* ------------------------------------------------ claims on memory
\* C14: in encrypt_wallet, decrypt_wallet and mnemonic generation
\* (Wallet::generate), every buffer holding the derived symmetric key or the
\* raw entropy is overwritten with zeros before the operation returns, on
\* every exit path: normal return and each error return.
C14_KeyWiped ==
    /\ stored.origin = "encrypt_wallet" => stored.out.key # "live"
    /\ dec.called => dec.out.key # "live"
    /\ ctor.op = "generate" => residue.entropy # "live"

\* C15: when a Wallet value is dropped, the mnemonic phrase it holds is wiped
\* (zeroized) from memory, as is the phrase held by a SecureMnemonic.
C15_MnemonicWiped ==
    residue.dropped \in {"Wallet", "SecureMnemonic"} => residue.mnemonic = <<>>

\* ------------------------------------------------ claims on the plaintext
\* decrypt_wallet got past the MAC check and the AEAD decryption
Authenticated(call) ==
    call.called /\ \E i \in 1..Len(call.out.steps) : call.out.steps[i] = "deserialize"

\* C16: when MAC verification and AEAD decryption both succeed but the
\* plaintext is not a valid wallet (it fails to deserialize, or the
\* deserialized wallet fails Wallet::validate) decrypt_wallet fails with
\* DataCorruption and returns no wallet.
C16_InvalidPlaintext ==
    Authenticated(dec)
        => /\ dec.out.res.ok => wallet_validate(dec.out.res.val).ok
           /\ ~dec.out.res.ok => dec.out.res.err.kind = "DataCorruption"

\* ------------------------------------------------ claims on the mnemonic
\* C17: every Wallet that has a mnemonic, whichever way it was built
\* (Wallet::from_mnemonic, Wallet::generate, WalletManager::create_wallet or
\* import_from_mnemonic, decrypt_wallet), holds a phrase of exactly 12 or 24
\* words; a phrase of any other word count, and generate with any other
\* word_count, is rejected with InvalidMnemonic.
C17_WordCount ==
    /\ (ctor.res.ok /\ has_mnemonic(Built))
          => is_supported_word_count(Len(Built.mnemonic))
    /\ (dec.called /\ dec.out.res.ok /\ has_mnemonic(Restored))
          => is_supported_word_count(Len(Restored.mnemonic))
    /\ (/\ ctor.op \in {"from_mnemonic", "import_from_mnemonic"}
        /\ ~is_supported_word_count(Len(ctor.arg)))
          => ~ctor.res.ok /\ ctor.res.err.kind = "InvalidMnemonic"
    /\ (/\ ctor.op \in {"generate", "create_wallet"}
        /\ ~is_supported_word_count(ctor.arg[1]))
          => ~ctor.res.ok /\ ctor.res.err.kind = "InvalidMnemonic"

\* ------------------------------------------------ claims on the manager
\* save_wallet was called on a wallet of create_wallet, with a path that is
\* well-formed, names nothing yet and lies in a directory that can be made,
\* and load_wallet was then called on that path with the same password
SavedAndLoaded ==
    /\ pc = "loaded"
    /\ ctor.op = "create_wallet"
    /\ validate_file_path(io.path).ok
    /\ ~exists(io.before, io.path)
    /\ create_dir_all(io.before, parent(io.path)).ok
    /\ dec.path = io.path
    /\ dec.password = stored.password

\* C20: for a wallet created by WalletManager::create_wallet under any
\* configured network name and for any password string, save_wallet to a
\* not-yet-existing path succeeds and creates the file, and load_wallet on
\* that path with the same password returns a wallet with the same address
\* and mnemonic.
C20_SaveLoad ==
    SavedAndLoaded
        => /\ io.res.ok
           /\ IsFile(fs, components(io.path))
           /\ dec.out.res.ok
           /\ Restored.address = Built.address
           /\ Restored.mnemonic = Built.mnemonic

\* the round trip through the manager happened and gave the wallet back
C20_Reached ==
    /\ SavedAndLoaded
    /\ io.res.ok
    /\ dec.out.res.ok
    /\ Restored.address = Built.address
    /\ Restored.mnemonic = Built.mnemonic

\* ------------------------------------------------ claims on the listing
\* the .json files of the directory listed that load_keystore reads
Loadable ==
    {f.at[Len(f.at)] : f \in
        {g \in io.before.files :
            /\ SubSeq(g.at, 1, Len(g.at) - 1) = components(io.path)
            /\ extension(g.at[Len(g.at)]) = Some(<<"j", "s", "o", "n">>)
            /\ g.len <= MAX_KEYSTORE_SIZE
            /\ from_json(g.content).ok}}

\* C18: listing a wallet directory completes for every directory content:
\* each .json file that fails to load as a keystore is skipped, every file
\* that loads is reported, and no single file (corrupt, foreign, or with
\* unexpected field values such as a short created_at) makes the listing
\* abort or panic.
C18_ListCompletes ==
    (io.op = "execute_list" /\ IsDir(io.before, components(io.path)))
        => io.res.ok /\ io.res.val = Loadable

\* a directory with a keystore, a corrupt file and a foreign file was listed
C18_Reached ==
    /\ io.op = "execute_list"
    /\ io.res.ok
    /\ Cardinality(io.res.val) >= 2
    /\ \E f \in io.before.files :
          /\ SubSeq(f.at, 1, Len(f.at) - 1) = components(io.path)
          /\ ~from_json(f.content).ok

\* ------------------------------------------------ claims on the codes
\* both errors were reported, and their messages carry a code
BothReported ==
    /\ Len(report.results) = 2
    /\ \A i \in 1..2 : report.errors[i].cat \in DOMAIN ErrorVariants

\* C19: for every WalletError value, code() returns the stable code that
\* identifies its own variant, the same code its Display message starts with
\* (FileNotFound gives FS_002, PathTraversal FS_007, WeakPassword AUTH_002,
\* InvalidKeystoreSchema VALIDATION_002), so two different variants of one
\* category never share a code.
C19_StableCode ==
    BothReported
        => /\ \A i \in 1..2 : report.results[i].code = display_code(report.errors[i])
           /\ report.errors[1] # report.errors[2]
                 => report.results[1].code # report.results[2].code

\* two different cryptographic errors were reported, each under its own code
C19_Reached ==
    /\ BothReported
    /\ report.errors[1].cat = "Cryptographic"
    /\ report.errors[2].cat = "Cryptographic"
    /\ report.errors[1] # report.errors[2]
    /\ report.results[1].code = "CRYPTO_002"
    /\ report.results[2].code = "CRYPTO_010"

\* save_wallet wrote the keystore, and load_wallet was called on its path
\* with another password
LoadedWithOtherPassword ==
    /\ pc = "loaded"
    /\ io.res.ok
    /\ dec.path = io.path
    /\ dec.password # stored.password

\* C21: WalletManager::load_wallet with a password different from the one
\* given to save_wallet fails with an error of the Authentication category
\* (WalletError::Authentication).
C21_AuthenticationError ==
    LoadedWithOtherPassword
        => ~dec.out.res.ok /\ dec.out.res.err.cat = "Authentication"

\* ------------------------------------------------ claims on the vector
\* the address the specification gives for the test mnemonic
SPEC_VECTOR ==
    <<"0", "x", "9", "8", "5", "8", "e", "f", "f", "f", "d", "2", "3", "2", "b", "4",
      "0", "3", "3", "e", "4", "7", "d", "9", "0", "0", "0", "3", "d", "4", "1", "e",
      "c", "3", "4", "e", "c", "a", "e", "d", "a", "9", "4">>

\* METAMASK_ADDRESS_0 of tests/integration/test_metamask_compat.rs
METAMASK_ADDRESS_0 ==
    <<"0", "x", "9", "8", "5", "8", "E", "f", "F", "D", "2", "3", "2", "B", "4", "0",
      "3", "3", "E", "4", "7", "d", "9", "0", "0", "0", "3", "D", "4", "1", "E", "C",
      "3", "4", "E", "c", "a", "E", "d", "a", "9", "4">>

\* a wallet was made from the test mnemonic
FromTestMnemonic ==
    /\ ctor.op \in {"from_mnemonic", "import_from_mnemonic"}
    /\ ctor.arg = TEST_MNEMONIC
    /\ ctor.res.ok

\* the primary address and the address at index 1, as the claim reads with
\* the address `vector`
KnownVector(vector) ==
    FromTestMnemonic
        => /\ Built.derivation_path \o <<"/", "0">> = BUILDER_DEFAULT_PATH
           /\ to_lowercase(Built.address) = to_lowercase(vector)
           /\ derived.index = 1
                 => /\ derived.res.ok
                    /\ derived.res.val.address # Built.address
                    /\ (RoundTripped /\ dec.out.res.ok /\ rederived.index = 1)
                          => rederived.res = derived.res

DecryptOrder ==
    <<"validate", "kdf", "hmac", "aead", "zeroize", "deserialize", "wallet_validate">>

\* The keystore at hand got as far as the MAC for the password of the
\* call; `same` tells whether the stored MAC is the HMAC, under the key its
\* stored salt and parameters give, of the ciphertext followed by the nonce
MacCheck ==
    LET ks == stored.out.res.val
        valid == keystore_validate(ks).ok
        kdf == IF valid THEN decrypt_kdf(ks, dec.password, keystore_salt(ks).val)
               ELSE Err(NoError)
        message == encrypted_data(ks).val \o keystore_nonce(ks).val
    IN  [computed |-> dec.called /\ valid /\ kdf.ok,
         same |-> dec.called /\ valid /\ kdf.ok
                    /\ HmacSha256(kdf.val, message) = keystore_mac(ks).val]

\* C23: in decrypt_wallet the steps occur in the order: schema validation,
\* KDF with the keystore's stored salt and parameters, HMAC recomputation
\* over ciphertext followed by nonce, comparison with the stored MAC, and
\* only then AEAD decryption; when the MACs differ the call returns
\* DecryptionFailed and AEAD decryption is never attempted.  (When the MACs
\* agree the AEAD decryption follows, unless the call ends in the panic of
\* Nonce::from_slice, which comes before it.)
C23_StepOrder ==
    dec.called
        => /\ \E n \in 1..Len(DecryptOrder) : dec.out.steps = SubSeq(DecryptOrder, 1, n)
           /\ LET check == MacCheck
              IN  check.computed
                    => IF check.same
                       THEN dec.out.panic \/ Len(dec.out.steps) >= 4
                       ELSE /\ ~dec.out.res.ok
                            /\ dec.out.res.err.kind = "DecryptionFailed"
                            /\ dec.out.steps = SubSeq(DecryptOrder, 1, 3)

\* the MACs differed and the call ended before the AEAD decryption
C23_Reached ==
    /\ dec.called
    /\ MacCheck.computed
    /\ ~MacCheck.same
    /\ dec.out.res.err.kind = "DecryptionFailed"

\* ------------------------------------------------ claims on the KDF tag
\* the kdf tag of a keystore names the variant of its kdfparams
TagAgrees(ks) ==
    /\ ks.crypto.kdf = "argon2id" <=> ks.crypto.kdfparams.variant = "Argon2"
    /\ ks.crypto.kdf = "pbkdf2" <=> ks.crypto.kdfparams.variant = "Pbkdf2"

\* C24: the KDF that decrypt_wallet runs is the one named by the keystore's
\* explicit kdf tag ("argon2id" runs Argon2id, "pbkdf2" runs PBKDF2), never
\* one inferred from the structural shape of kdfparams; for every keystore
\* accepted by from_json the kdf tag and the kdfparams variant agree.  (A
\* call of decrypt_wallet that returns the wallet ran the KDF of the
\* kdfparams variant: the MAC matched under its key.)
C24_KdfTag ==
    /\ (parsed.called /\ parsed.res.ok) => TagAgrees(parsed.res.val)
    /\ (dec.called /\ dec.out.res.ok) => TagAgrees(FileKeystore)

\* ------------------------------------------------ claims on validate
\* a text of hex digits, two for each byte
DecodesAsHex(text) ==
    /\ Len(text) % 2 = 0
    /\ \A i \in 1..Len(text) :
          text[i] \in {HexLower[k] : k \in 1..16} \cup {HexUpper[k] : k \in 1..16}

\* the rules of the claim, one by one
ValidAsClaimed(ks) ==
    LET address == ks.metadata.address
        digits == IF Len(address) >= 2 /\ SubSeq(address, 1, 2) = <<"0", "x">>
                  THEN SubSeq(address, 3, Len(address)) ELSE address
        kp == ks.crypto.kdfparams
    IN  /\ ks.version # ""
        /\ Len(digits) = 40 /\ DecodesAsHex(digits)
        /\ ks.metadata.network \in {"mainnet", "sepolia", "goerli", "holesky"}
        /\ ks.crypto.cipher = "aes-256-gcm"
        /\ ks.crypto.kdf \in {"argon2id", "pbkdf2"}
        /\ DecodesAsHex(ks.crypto.ciphertext)
        /\ DecodesAsHex(ks.crypto.cipherparams.iv)
        /\ DecodesAsHex(ks.crypto.mac)
        /\ DecodesAsHex(kp.salt)
        /\ kp.dklen = 32
        /\ kp.variant = "Argon2" => kp.memory > 0 /\ kp.time > 0 /\ kp.parallelism > 0
        /\ kp.variant = "Pbkdf2" => kp.c > 0 /\ kp.prf = "hmac-sha256"

\* C25: Keystore::validate returns Ok exactly when all of these hold, and an
\* error otherwise: version non-empty; address is 40 hex digits with optional
\* 0x prefix; network in {mainnet, sepolia, goerli, holesky}; cipher ==
\* "aes-256-gcm"; kdf in {"argon2id", "pbkdf2"}; ciphertext, iv, mac and salt
\* decode as hex; dklen == 32; for Argon2 memory, time and parallelism all
\* > 0; for PBKDF2 c > 0 and prf == "hmac-sha256".
C25_ValidateRules ==
    (parsed.called /\ serde_json_from_str(file).ok)
        => (parsed.res.ok <=> ValidAsClaimed(FileKeystore))

\* validate turned down a keystore for one of its kdfparams
C25_Reached ==
    /\ parsed.called
    /\ serde_json_from_str(file).ok
    /\ ~parsed.res.ok
    /\ ValidAsClaimed([FileKeystore EXCEPT !.crypto.kdfparams =
                           stored.out.res.val.crypto.kdfparams])

\* ------------------------------------------------ claims on the error
\* the ciphertext or the mac of the file decodes to other bytes than the
\* ones written
BytesAltered ==
    /\ change.field \in {"crypto.ciphertext", "crypto.mac"}
    /\ hex_decode(file.members[change.field]).ok
    /\ hex_decode(file.members[change.field]).val
         # hex_decode(WrittenMembers[change.field]).val

\* the error of decrypt_wallet when the MACs differ
MAC_MISMATCH ==
    Err(DecryptionFailed("MAC verification failed - wrong password or corrupted data"))

\* C26: for a keystore produced by encrypt_wallet, the error decrypt_wallet
\* returns for a wrong password is the same value (same variant and same
\* context text) as the error it returns for the right password when the
\* ciphertext or the mac bytes were altered, so the caller cannot tell from
\* the error which of the two happened or which cryptographic step failed.
C26_UniformError ==
    /\ (dec.called /\ change = NoChange /\ dec.password # stored.password)
          => dec.out.res = MAC_MISMATCH
    /\ (dec.called /\ BytesAltered /\ dec.password = stored.password)
          => dec.out.res = MAC_MISMATCH
    /\ (dec.called /\ BytesAltered /\ dec.password # stored.password)
          => dec.out.res = MAC_MISMATCH

\* the right password was tried on a keystore whose ciphertext was altered
C26_Reached ==
    /\ dec.called
    /\ BytesAltered
    /\ change.field = "crypto.ciphertext"
    /\ dec.password = stored.password
    /\ dec.out.res = MAC_MISMATCH

\* ------------------------------------------------------ an address book
\* Address strings: an address in lower case, the same in upper case, another
\* address, and one that is too short
ADDRESS_UPPER == <<"0", "x">> \o Rep("D", ADDRESS_HEX_LENGTH)
ADDRESS_ONES == <<"0", "x">> \o Rep("1", ADDRESS_HEX_LENGTH)

AddressStrings == {OTHER_ADDRESS, ADDRESS_UPPER, ADDRESS_ONES, SHORT_ADDRESS}

\* The Address values a caller can hold: those the constructors return, and
\* those serde reads from JSON (Address derives Deserialize), whose fields are
\* what the text says
AddressInputs ==
    {Address_from_string(s, "mainnet").val : s \in AddressStrings \ {SHORT_ADDRESS}}
    \cup {Address_derived(ADDRESS_ONES, "mainnet", 0,
                          DEFAULT_DERIVATION_PATH \o <<"/", "0">>).val}
    \cup {MkAddress(s, "mainnet", None, None) : s \in AddressStrings}
    \cup {MkAddress(ADDRESS_ONES, "testnet", None, None),
          MkAddress(ADDRESS_ONES, "mainnet", None, Some(DEFAULT_DERIVATION_PATH)),
          MkAddress(ADDRESS_ONES, "mainnet", Some(1),
                    Some(DEFAULT_DERIVATION_PATH \o <<"/", "0">>))}

InitBook ==
    /\ pc = "start"
    /\ ctor = [op |-> "none", arg |-> <<>>, res |-> Err(NoError)]
    /\ stored = [origin |-> "none", out |-> NoOutcome, password |-> <<>>]
    /\ file = NoFileText
    /\ fs = EmptyFs
    /\ io = NoIo
    /\ savers = NoSavers
    /\ residue = NoResidue
    /\ report = NoReport
    /\ book = AddressBook_new("mainnet")
    /\ asked = NoBookCall
    /\ derived = NoDerivation
    /\ change = NoChange
    /\ dec = NoCall
    /\ retry = NoCall
    /\ rederived = NoDerivation
    /\ parsed = NoParse

BookAdd ==
    /\ \E address \in AddressInputs :
          LET out == AddressBook_add(book, address)
          IN  /\ book' = out.book
              /\ asked' = [op |-> "add", arg |-> address, res |-> out.res, before |-> book]
    /\ UNCHANGED <<pc, ctor, derived, stored, change, dec, retry, rederived, parsed, file, fs,
                   io, savers, residue, report>>

BookRemove ==
    /\ \E address \in AddressStrings :
          LET out == AddressBook_remove(book, address)
          IN  /\ book' = out.book
              /\ asked' = [op |-> "remove", arg |-> address, res |-> out.res,
                           before |-> book]
    /\ UNCHANGED <<pc, ctor, derived, stored, change, dec, retry, rederived, parsed, file, fs,
                   io, savers, residue, report>>

BookFind ==
    /\ \E address \in AddressStrings :
          asked' = [op |-> "find", arg |-> address, res |-> AddressBook_find(book, address),
                    before |-> book]
    /\ UNCHANGED <<pc, ctor, derived, stored, change, dec, retry, rederived, parsed, file, fs,
                   io, savers, residue, report, book>>

NextBook ==
    \/ BookAdd
    \/ BookRemove
    \/ BookFind

SpecBook == InitBook /\ [][NextBook]_vars

\* ------------------------------------------------ claims on the race
\* two calls of save_keystore for one path, where nothing was when either of
\* them was called, have both returned Ok
BothSaved(a, b) ==
    /\ a # b
    /\ savers[a].pc = "returned" /\ savers[a].res.ok /\ savers[a].before = {}
    /\ savers[b].pc = "returned" /\ savers[b].res.ok /\ savers[b].before = {}
    /\ savers[a].path = savers[b].path

\* C27: when two save_keystore calls target the same not-yet-existing path
\* concurrently, both can pass the existence check and return Ok, and the
\* file finally at the path is the complete keystore of the last writer,
\* never a mixture of the two writers' bytes.
C27_LastWriterWins ==
    \A a \in Savers, b \in Savers :
        BothSaved(a, b)
            => \E f \in FilesAt(fs, savers[a].path) :
                  f.content \in {SaverText[a], SaverText[b]}

\* both calls passed the existence check and returned Ok
C27_Reached == \E a \in Savers, b \in Savers : BothSaved(a, b)

\* ------------------------------------------------ claims on panics
\* decrypt_wallet was given a keystore that passes Keystore::validate, whose
\* iv is not of NONCE_LENGTH bytes, under the password its mac was made with
OddNonceAuthenticated ==
    /\ pc = "loaded"
    /\ dec.called
    /\ keystore_validate(stored.out.res.val).ok
    /\ Len(keystore_nonce(stored.out.res.val).val) # NONCE_LENGTH
    /\ dec.password = stored.password

\* C28: decrypt_wallet never panics, whatever keystore it is given: a
\* keystore that passes validate, whose iv decodes to a length other than 12
\* bytes and whose mac matches, yields an error and no panic.
C28_NoPanic == dec.called => ~dec.out.panic

\* decrypt_wallet has run on such a keystore
C28_Reached == OddNonceAuthenticated

\* ------------------------------------------------ claims on the KDF settings
\* save_wallet of a manager whose KDF settings are not the defaults wrote a
\* keystore
SavedUnderOtherSettings ==
    /\ pc \in {"saved", "loaded"}
    /\ io.op = "save_wallet"
    /\ io.res.ok
    /\ stored.config.kdf_memory # 47104

\* load_wallet of such a manager read the keystore written earlier with the
\* parameters for low memory, under the password it was written with
LoadedLowMemory ==
    /\ pc = "loaded"
    /\ dec.called
    /\ dec.path = PATH_OLD
    /\ dec.password = PASSWORD
    /\ load_keystore(fs, PATH_OLD).res.ok
    /\ load_keystore(fs, PATH_OLD).res.val.crypto.kdfparams.memory = 19456
    /\ stored.config.kdf_memory \notin {47104, 19456}

Present(b, address) == \E i \in 1..Len(b.addresses) : equals(b.addresses[i], address)

\* add was called with a valid Address that an entry of the book equals
AddOfPresent ==
    /\ asked.op = "add"
    /\ Address_validate(asked.arg).ok
    /\ Present(asked.before, asked.arg.address)

\* C30: after any sequence of AddressBook::add and AddressBook::remove calls
\* the book holds no two entries whose addresses are equal ignoring case (the
\* comparison that find and remove use); add of an address already present
\* returns IntegrityCheckFailed and leaves the book unchanged, and remove(a)
\* returns true exactly when an entry equal to a was present, after which
\* find(a) returns None.
C30_NoDuplicates ==
    /\ \A i \in 1..Len(book.addresses), j \in 1..Len(book.addresses) :
          i # j => ~equals(book.addresses[i], book.addresses[j].address)
    /\ AddOfPresent
          => /\ ~asked.res.ok
             /\ asked.res.err.kind = "IntegrityCheckFailed"
             /\ book = asked.before
    /\ asked.op = "remove"
          => /\ asked.res = Present(asked.before, asked.arg)
             /\ AddressBook_find(book, asked.arg) = None

\* add was called with an address that was present
C30_Reached == AddOfPresent

====
